---- MODULE Spec2Model ----
(***************************************************************************)
(* The ant-colony simulation engine of packages/nextjs/app/page.tsx (the   *)
(* continuous-motion variant): parseMapTemplate, createAnt, initGame,      *)
(* updatePhysics, gameTick, setDirective and the pause toggle, and the     *)
(* same engine with ants that step from tile to tile (unnamed/part_000,    *)
(* the discrete variant).                                                  *)
(*                                                                         *)
(* Units and abstractions.                                                 *)
(*  - Pheromone values are fixed-point thousandths: One = 1.0, so          *)
(*    PHEROMONE_DECAY = 0.002 is 2 and PHEROMONE_DEPOSIT_RATE = 0.15 is    *)
(*    150.  Every constant of the code is a whole number of thousandths.   *)
(*  - A continuous position is kept as the tile it lies in (floor(x),      *)
(*    floor(y)), which is all gameTick reads through getTileAt, plus the   *)
(*    flag near = (distance(pos, nestPos) < 1), which is all gameTick      *)
(*    reads through distToNest.  Velocity, wanderAngle, colour and         *)
(*    lastTrailSample are not kept: the steering forces depend on          *)
(*    Math.random and Date.now, so a motion pass is a nondeterministic     *)
(*    choice among the moves a bounded velocity allows.  The section on    *)
(*    the kinematics of updatePhysics keeps the position, the velocity     *)
(*    and the wanderAngle of every ant in fixed-point arithmetic and       *)
(*    computes the forces as steer and vec2 do.                            *)
(*  - A trail is the sequence of the tiles of its sampled positions.       *)
(*  - The map (Tile[][]) is kept as the function from the tiles that       *)
(*    differ from an untouched ground tile (BlankTile) to their records;   *)
(*    map[ty][tx] is TileAt(map, tx, ty).  The encoding loses nothing:     *)
(*    every tile outside the function's domain is BlankTile.               *)
(***************************************************************************)
EXTENDS Integers, Sequences, FiniteSets, TLC

VARIABLES gs, isPaused, budget, ev, mapTemplate

vars == <<gs, isPaused, budget, ev, mapTemplate>>

----------------------------------------------------------------------------
(* Constants of page.tsx *)

MAP_SIZE == 20
WORLD_SIZE == MAP_SIZE
One == 1000
PHEROMONE_DECAY == 2
PHEROMONE_DEPOSIT_RATE == 150
TRAIL_MAX_LENGTH == 150
MAX_ANTS == 15
INITIAL_ANTS == 1
INITIAL_FOOD == 5
WIN_FOOD == 30
STARVATION_TICKS == 300
MIN_ANTS_TO_SURVIVE == 1
SPAWN_FOOD_COST == 5

(* Bounds of the model: motion passes and logic ticks explored from each   *)
(* initial state.                                                          *)
MaxFrames == 2
MaxTicks == 2
MaxLateFrames == 1
MaxCut == 2
MaxGridTicks == 1

Max(a, b) == IF a >= b THEN a ELSE b
Min(a, b) == IF a <= b THEN a ELSE b
Abs(a) == IF a < 0 THEN -a ELSE a

Coord == 0 .. (MAP_SIZE - 1)
Directives == {"explore", "harvest", "defend"}
AntStates == {"explore", "return", "harvest", "defend"}

----------------------------------------------------------------------------
(* MAP_TEMPLATE, as the sequence of UTF-16 code units row[charIndex] reads. *)
(* The border emoji is outside the basic plane: it is two code units, a     *)
(* high and a low surrogate.                                                *)

BORDER == <<"hi-surrogate", "lo-surrogate">>

RECURSIVE Rep(_, _)
Rep(s, n) == IF n = 0 THEN <<>> ELSE s \o Rep(s, n - 1)

MAP_TEMPLATE == <<
    Rep(BORDER, 20),
    Rep(BORDER, 1) \o Rep(<<".">>, 14) \o <<"F">> \o Rep(<<".">>, 3) \o Rep(BORDER, 1),
    Rep(BORDER, 1) \o Rep(<<".">>, 6) \o <<"F">> \o Rep(<<".">>, 5) \o <<"S">> \o Rep(<<".">>, 5) \o Rep(BORDER, 1),
    Rep(BORDER, 1) \o Rep(<<".">>, 18) \o Rep(BORDER, 1),
    Rep(BORDER, 1) \o Rep(<<".">>, 14) \o <<"F">> \o Rep(<<".">>, 3) \o Rep(BORDER, 1),
    Rep(BORDER, 1) \o Rep(<<".">>, 18) \o Rep(BORDER, 1),
    Rep(BORDER, 1) \o Rep(<<".">>, 18) \o Rep(BORDER, 1),
    Rep(BORDER, 1) \o Rep(<<".">>, 3) \o <<"S">> \o Rep(<<".">>, 14) \o Rep(BORDER, 1),
    Rep(BORDER, 1) \o Rep(<<".">>, 18) \o Rep(BORDER, 1),
    Rep(BORDER, 1) \o Rep(<<".">>, 9) \o <<"N">> \o Rep(<<".">>, 8) \o Rep(BORDER, 1),
    Rep(BORDER, 1) \o Rep(<<".">>, 18) \o Rep(BORDER, 1),
    Rep(BORDER, 1) \o Rep(<<".">>, 18) \o Rep(BORDER, 1),
    Rep(BORDER, 1) \o Rep(<<".">>, 7) \o <<"F">> \o Rep(<<".">>, 10) \o Rep(BORDER, 1),
    Rep(BORDER, 1) \o Rep(<<".">>, 18) \o Rep(BORDER, 1),
    Rep(BORDER, 1) \o Rep(<<".">>, 18) \o Rep(BORDER, 1),
    Rep(BORDER, 1) \o Rep(<<".">>, 12) \o <<"S">> \o Rep(<<".">>, 5) \o Rep(BORDER, 1),
    Rep(BORDER, 1) \o Rep(<<".">>, 18) \o Rep(BORDER, 1),
    Rep(BORDER, 1) \o Rep(<<".">>, 2) \o <<"F">> \o Rep(<<".">>, 15) \o Rep(BORDER, 1),
    Rep(BORDER, 1) \o Rep(<<".">>, 18) \o Rep(BORDER, 1),
    Rep(BORDER, 20) >>

----------------------------------------------------------------------------
(* parseMapTemplate *)

(* row[charIndex], charIndex counted from 0: one code unit. *)
CharAt(row, charIndex) == <<row[charIndex + 1]>>

(* The if-chain of the inner loop: the tile type of a char and the number   *)
(* of code units it consumes.  char is a single code unit, so it never      *)
(* equals the two-unit border emoji.                                        *)
CharType(char) ==
    IF char = BORDER THEN [type |-> "border", step |-> 2]
    ELSE IF char = <<"F">> THEN [type |-> "food", step |-> 1]
    ELSE IF char = <<"S">> THEN [type |-> "spider", step |-> 1]
    ELSE IF char = <<"N">> THEN [type |-> "nest", step |-> 1]
    ELSE [type |-> "ground", step |-> 1]

(* The two while loops over one row: the types of tiles x .. MAP_SIZE-1.    *)
RECURSIVE ParseRow(_, _, _)
ParseRow(row, x, charIndex) ==
    IF x >= MAP_SIZE THEN <<>>
    ELSE IF charIndex < Len(row)
         THEN LET c == CharType(CharAt(row, charIndex))
              IN  <<c.type>> \o ParseRow(row, x + 1, charIndex + c.step)
         ELSE <<"ground">> \o ParseRow(row, x + 1, charIndex)

(* types[y][x], both counted from 0, of the rows of a template *)
TypesOf(template) == [y \in Coord |-> LET r == ParseRow(template[y + 1], 0, 0)
                                      IN  [x \in Coord |-> r[x + 1]]]

TemplateTypes == TypesOf(MAP_TEMPLATE)

(* nestPos: (10.5, 9.5) unless an N is met; the last N met wins.  Kept as   *)
(* the tile of the nest centre (x + 0.5, y + 0.5).                          *)
NestOf(types) ==
    LET ns == {p \in Coord \X Coord : types[p[2]][p[1]] = "nest"}
    IN  IF ns = {} THEN [x |-> 10, y |-> 9]
        ELSE LET last == CHOOSE p \in ns : \A q \in ns :
                             q[2] < p[2] \/ (q[2] = p[2] /\ q[1] <= p[1])
             IN  [x |-> last[1], y |-> last[2]]

TemplateNest == NestOf(TemplateTypes)

InBounds(x, y) == x >= 0 /\ x < MAP_SIZE /\ y >= 0 /\ y < MAP_SIZE

(* The 5x5 square of the "area around nest" loops. *)
InNestArea(nestPos, x, y) == Abs(x - nestPos.x) <= 2 /\ Abs(y - nestPos.y) <= 2

(* The tile of the fill loop (lines 209-217): ground, no signal, hidden. *)
BlankTile == [type |-> "ground", homePheromone |-> 0, foodPheromone |-> 0,
              revealed |-> FALSE]

AllTiles == Coord \X Coord

(* map[ty][tx] *)
TileAt(map, tx, ty) ==
    IF <<tx, ty>> \in DOMAIN map THEN map[<<tx, ty>>] ELSE BlankTile

(* The encoding of the tiles f: the tiles that are not BlankTile. *)
Canon(f) ==
    LET keep == {t \in DOMAIN f : f[t] # BlankTile}
    IN  [t \in keep |-> f[t]]

SetTile(map, tx, ty, tile) ==
    [t \in DOMAIN map \cup {<<tx, ty>>} |->
        IF t = <<tx, ty>> THEN tile ELSE map[t]]

(* parseMapTemplate, reading the given types and nest position. *)
ParsedMap(types, nestPos) ==
    LET tiles == [t \in AllTiles |->
            LET x == t[1]
                y == t[2]
                type == types[y][x]
                base == [type |-> type,
                         homePheromone |-> IF type = "nest" THEN One ELSE 0,
                         foodPheromone |-> 0,
                         revealed |-> (type = "nest" \/ type = "border")]
            IN  IF InNestArea(nestPos, x, y)
                THEN [base EXCEPT !.revealed = TRUE,
                                  !.homePheromone =
                                      Max(300, One - Abs(x - nestPos.x) * 200
                                                   - Abs(y - nestPos.y) * 200)]
                ELSE base]
    IN  [tiles |-> Canon(tiles), nestPos |-> nestPos]

parseMapTemplate == ParsedMap(TemplateTypes, TemplateNest)

(* A createAnt that gives every ant the first id. *)
createAntUnnumbered(nestPos, id) ==
    [id |-> Min(id, 0),
     pos |-> [x |-> nestPos.x, y |-> nestPos.y, near |-> TRUE],
     state |-> "explore",
     carriedInfo |-> "none",
     trail |-> <<[x |-> nestPos.x, y |-> nestPos.y]>>,
     isAlive |-> TRUE]

(* createAnt: at the nest centre (distance 0 from it), exploring. *)
createAnt(nestPos, id) ==
    [id |-> id,
     pos |-> [x |-> nestPos.x, y |-> nestPos.y, near |-> TRUE],
     state |-> "explore",
     carriedInfo |-> "none",
     trail |-> <<[x |-> nestPos.x, y |-> nestPos.y]>>,
     isAlive |-> TRUE]

(* The game state initGame sets from a parsed map. *)
GameStateOf(parsed) ==
    [map |-> parsed.tiles,
     ants |-> [i \in 1 .. INITIAL_ANTS |-> createAnt(parsed.nestPos, i - 1)],
     directive |-> "explore",
     food |-> INITIAL_FOOD,
     maxFood |-> WIN_FOOD,
     tick |-> 0,
     gameOver |-> FALSE,
     won |-> FALSE,
     ticksSinceLastFood |-> 0,
     nestPos |-> parsed.nestPos,
     antIdCounter |-> INITIAL_ANTS]

(* An initGame that leaves the id counter at 0. *)
initGameStateCounterZero ==
    [GameStateOf(parseMapTemplate) EXCEPT !.antIdCounter = 0]

(* The game state initGame sets. *)
initGameState == GameStateOf(parseMapTemplate)

----------------------------------------------------------------------------
(* updatePhysics *)

NestTile(nestPos, x, y) == x = nestPos.x /\ y = nestPos.y

(* The eight tiles around the nest tile: the only tiles, besides the nest   *)
(* tile itself (which lies wholly within distance 1 of its centre), that    *)
(* hold points at distance < 1 from the nest centre.                        *)
NestRing(nestPos, x, y) ==
    Max(Abs(x - nestPos.x), Abs(y - nestPos.y)) = 1

(* A clamp to the world, without the margin of 1.2. *)
ClampToWorldEdge(c) == Max(0, Min(WORLD_SIZE - 1, c))

(* The clamp of the new position to [1.2, WORLD_SIZE - 1.2], on the tile    *)
(* coordinate.                                                              *)
ClampToWorld(c) == Max(1, Min(WORLD_SIZE - 2, c))

(* The values distance(pos', nestPos) < 1 can take after one frame that     *)
(* takes the ant from pos to tile (x, y); a frame moves it by at most       *)
(* ANT_MAX_SPEED = 0.024.                                                   *)
NearAfter(nestPos, pos, x, y) ==
    IF NestTile(nestPos, x, y)
    THEN IF NestTile(nestPos, pos.x, pos.y) \/ pos.near THEN {TRUE} ELSE {}
    ELSE IF ~NestRing(nestPos, x, y) THEN {FALSE}
    ELSE IF pos.x = x /\ pos.y = y THEN {TRUE, FALSE}
    ELSE IF NestTile(nestPos, pos.x, pos.y) THEN {TRUE}
    ELSE {pos.near}

(* The positions one frame can take an ant to: newAnt.pos = pos + velocity, *)
(* clamped.  With |velocity| <= 0.024 a frame changes floor(x) or floor(y)  *)
(* by at most one; a diagonal tile is reached by two such frames.           *)
Moves(nestPos, pos) ==
    LET tiles == {<<pos.x, pos.y>>}
                 \cup {<<ClampToWorld(pos.x + d), pos.y>> : d \in {-1, 1}}
                 \cup {<<pos.x, ClampToWorld(pos.y + d)>> : d \in {-1, 1}}
    IN  UNION {{[x |-> t[1], y |-> t[2], near |-> n] :
                   n \in NearAfter(nestPos, pos, t[1], t[2])} : t \in tiles}

(* A trail that is never cut. *)
SampleTrailUnbounded(trail, pos) == Append(trail, [x |-> pos.x, y |-> pos.y])

(* Lines 882-889: append the sampled position, keep the newest              *)
(* TRAIL_MAX_LENGTH entries.                                                *)
SampleTrail(trail, pos) ==
    LET t == Append(trail, [x |-> pos.x, y |-> pos.y])
    IN  IF Len(t) > TRAIL_MAX_LENGTH
        THEN SubSeq(t, Len(t) - TRAIL_MAX_LENGTH + 1, Len(t))
        ELSE t

(* A motion pass that does not skip dead ants and hands back every ant as  *)
(* a live one.                                                              *)
MoveAntRevived(ant, p, sample) ==
    [ant EXCEPT !.pos = p,
                !.trail = IF sample THEN SampleTrail(ant.trail, p) ELSE @,
                !.isAlive = TRUE]

(* The map callback of updatePhysics for one live ant, with the frame's     *)
(* outcome (new position, whether the trail interval has elapsed) given.    *)
MoveAnt(ant, p, sample) ==
    IF ~ant.isAlive THEN ant
    ELSE [ant EXCEPT !.pos = p,
                     !.trail = IF sample THEN SampleTrail(ant.trail, p) ELSE @]

(* A motion pass that reveals the tile the ant steps on. *)
updatePhysicsStateRevealing(state, paused, i, p, sample) ==
    IF state.gameOver \/ paused THEN state
    ELSE [state EXCEPT
            !.ants = [k \in DOMAIN state.ants |->
                IF k = i THEN MoveAnt(state.ants[k], p, sample) ELSE state.ants[k]],
            !.map = [t \in DOMAIN state.map \cup {<<p.x, p.y>>} |->
                IF t = <<p.x, p.y>>
                THEN [(IF t \in DOMAIN state.map THEN state.map[t]
                       ELSE [type |-> "ground", homePheromone |-> 0,
                             foodPheromone |-> 0, revealed |-> FALSE])
                      EXCEPT !.revealed = TRUE]
                ELSE state.map[t]]]

(* A motion pass that does not look at the pause flag. *)
updatePhysicsStateUnpaused(state, paused, i, p, sample) ==
    IF state.gameOver THEN state
    ELSE [state EXCEPT !.ants = [k \in DOMAIN state.ants |->
              IF k = i THEN MoveAnt(state.ants[k], p, sample) ELSE state.ants[k]]]

(* updatePhysics(state).  In the tile abstraction a frame is visible on an  *)
(* ant only when it changes its tile, its near flag or its trail; the map   *)
(* callback treats every ant independently of the others, so the frames in  *)
(* which several ants change at once reach the same states as frames that   *)
(* change them one after the other.  i is the ant this frame changes.       *)
updatePhysicsState(state, paused, i, p, sample) ==
    IF state.gameOver \/ paused THEN state
    ELSE [state EXCEPT !.ants = [k \in DOMAIN state.ants |->
              IF k = i THEN MoveAnt(state.ants[k], p, sample) ELSE state.ants[k]]]

----------------------------------------------------------------------------
(* gameTick *)

(* A decay by a factor instead of a fixed amount. *)
DecayValueByFactor(v) == v - (v * PHEROMONE_DECAY) \div One

(* Lines 907-908: Math.max(0, value - PHEROMONE_DECAY) *)
DecayValue(v) == Max(0, v - PHEROMONE_DECAY)

(* Lines 904-911 *)
DecayPheromones(map) ==
    [t \in DOMAIN map |->
        [map[t] EXCEPT !.homePheromone = DecayValue(@),
                       !.foodPheromone = DecayValue(@)]]

NestFloor(dx, dy) == 800 - Abs(dx) * 150 - Abs(dy) * 150

(* A tick that does not reinforce the nest area. *)
ReinforceNestSkipped(map, nestPos) == map

(* Lines 913-925 *)
ReinforceNest(map, nestPos) ==
    LET area == {t \in AllTiles : InNestArea(nestPos, t[1], t[2])}
    IN  [t \in DOMAIN map \cup area |->
            IF t \in area
            THEN [TileAt(map, t[1], t[2]) EXCEPT !.homePheromone =
                      Max(@, NestFloor(t[1] - nestPos.x, t[2] - nestPos.y))]
            ELSE map[t]]

(* A deposit that is not capped at 1. *)
DepositValueUnclamped(v, amount) == v + amount

DepositValue(v, amount) == Min(One, v + amount)

(* Lines 945-949: the pheromones an ant leaves on its tile. *)
Deposit(map, ant) ==
    LET tx == ant.pos.x
        ty == ant.pos.y
        t0 == TileAt(map, tx, ty)
        t1 == IF ant.carriedInfo = "food"
              THEN [t0 EXCEPT !.foodPheromone =
                        DepositValue(@, PHEROMONE_DEPOSIT_RATE)]
              ELSE t0
    IN  SetTile(map, tx, ty,
                [t1 EXCEPT !.homePheromone =
                     DepositValue(@, (PHEROMONE_DEPOSIT_RATE * 3) \div 10)])

(* A delivery that reveals only the last tile of the trail. *)
RevealTrailLast(map, trail) ==
    LET t == <<trail[Len(trail)].x, trail[Len(trail)].y>>
    IN  [u \in DOMAIN map \cup {t} |->
            IF u = t THEN [TileAt(map, t[1], t[2]) EXCEPT !.revealed = TRUE]
            ELSE map[u]]

(* Lines 972-979 *)
RevealTrail(map, trail) ==
    LET ts == {<<trail[k].x, trail[k].y>> : k \in DOMAIN trail} \cap AllTiles
    IN  [t \in DOMAIN map \cup ts |->
            IF t \in ts
            THEN [TileAt(map, t[1], t[2]) EXCEPT !.revealed = TRUE]
            ELSE map[t]]

NestTrail(nestPos) == <<[x |-> nestPos.x, y |-> nestPos.y]>>

(* A delivery after which the ant always explores. *)
StateAfterDeliveryExplore(directive) == "explore"

(* Line 983 *)
StateAfterDelivery(directive) ==
    IF directive = "defend" THEN "defend"
    ELSE IF directive = "harvest" THEN "harvest" ELSE "explore"

(* A pickup test that does not look at the ant's state. *)
CanPickUpAnyState(tile, ant) ==
    /\ tile.type = "food"
    /\ ant.carriedInfo = "none"

(* Line 958: the pickup test. *)
CanPickUp(tile, ant) ==
    /\ tile.type = "food"
    /\ ant.carriedInfo = "none"
    /\ ant.state \in {"explore", "harvest"}

(* Lines 965-967: the delivery test. *)
CanDeliver(ant) == ant.pos.near /\ ant.carriedInfo = "food"

(* A delivery that leaves the food with the ant. *)
DeliveredKeepingFood(newAnt, prev) ==
    [newAnt EXCEPT !.trail = NestTrail(prev.nestPos),
                   !.state = StateAfterDelivery(prev.directive)]

(* Lines 968-970 and 981-983: the delivery's effect on the ant. *)
Delivered(newAnt, prev) ==
    [newAnt EXCEPT !.carriedInfo = "none",
                   !.trail = NestTrail(prev.nestPos),
                   !.state = StateAfterDelivery(prev.directive)]

(* A pickup that leaves the ant in the state it was in. *)
PickedUpOnTheWay(ant) == [ant EXCEPT !.carriedInfo = "food"]

(* Lines 959-960: the pickup's effect on the ant. *)
PickedUp(ant) == [ant EXCEPT !.carriedInfo = "food", !.state = "return"]

(* A pickup that uses the food tile up. *)
MarkFoodSourceConsumed(tile) ==
    [tile EXCEPT !.type = "ground", !.foodPheromone = One]

(* A pickup that marks the food tile no more than a deposit does. *)
MarkFoodSourceWeak(tile) ==
    [tile EXCEPT !.foodPheromone = DepositValue(@, PHEROMONE_DEPOSIT_RATE)]

(* Line 961: the strong marker at the food source. *)
MarkFoodSource(tile) == [tile EXCEPT !.foodPheromone = One]

(* A world in which the border kills and the spiders are harmless. *)
IsHazardBorder(tile) == tile.type = "border"

(* Line 953: the tile kills the ant standing on it. *)
IsHazard(tile) == tile.type = "spider"

(* A delivery that leaves the starvation counter running. *)
CounterAfterUnfed(ticksSinceLastFood, deliver) ==
    IF deliver THEN ticksSinceLastFood ELSE ticksSinceLastFood

(* Line 969: a delivery sets the tick's ticksSinceLastFood to 0. *)
CounterAfter(ticksSinceLastFood, deliver) ==
    IF deliver THEN 0 ELSE ticksSinceLastFood

(* A callback that tests for the delivery before it tests for the spider. *)
ProcessAntDeliveryFirst(acc, prev, ant) ==
    IF ~ant.isAlive THEN [acc EXCEPT !.ants = Append(@, ant)]
    ELSE
    LET tx == ant.pos.x
        ty == ant.pos.y
        tile == TileAt(acc.map, tx, ty)
        m1 == Deposit(acc.map, ant)
    IN  IF CanDeliver(ant)
        THEN [map |-> RevealTrail(m1, ant.trail),
              food |-> acc.food + 1,
              ticksSinceLastFood |-> 0,
              ants |-> Append(acc.ants, Delivered(ant, prev))]
        ELSE IF IsHazard(tile)
        THEN [acc EXCEPT !.map = m1,
                         !.ants = Append(@, [ant EXCEPT !.isAlive = FALSE])]
        ELSE IF CanPickUp(tile, ant)
        THEN [acc EXCEPT !.map = SetTile(m1, tx, ty, MarkFoodSource(TileAt(m1, tx, ty))),
                         !.ants = Append(@, PickedUp(ant))]
        ELSE [acc EXCEPT !.map = m1, !.ants = Append(@, ant)]

(* Lines 933-993: the map callback for one ant.  acc carries newMap,        *)
(* newFood and ticksSinceLastFood, which the callback updates in place;     *)
(* the result adds the ant it returns.                                      *)
ProcessAnt(acc, prev, ant) ==
    IF ~ant.isAlive THEN [acc EXCEPT !.ants = Append(@, ant)]
    ELSE IF ~InBounds(ant.pos.x, ant.pos.y) THEN [acc EXCEPT !.ants = Append(@, ant)]
    ELSE
    LET tx == ant.pos.x
        ty == ant.pos.y
        tile == TileAt(acc.map, tx, ty)
        m1 == Deposit(acc.map, ant)
    IN  IF IsHazard(tile)
        THEN [acc EXCEPT !.map = m1,
                         !.ants = Append(@, [ant EXCEPT !.isAlive = FALSE])]
        ELSE
        LET pick == CanPickUp(tile, ant)
            a1 == IF pick THEN PickedUp(ant) ELSE ant
            m2 == IF pick
                  THEN SetTile(m1, tx, ty, MarkFoodSource(TileAt(m1, tx, ty)))
                  ELSE m1
            deliver == CanDeliver(ant)
            a2 == IF deliver THEN Delivered(a1, prev) ELSE a1
            m3 == IF deliver THEN RevealTrail(m2, ant.trail) ELSE m2
            idle == ant.pos.near /\ ant.carriedInfo = "none" /\ ant.state = "return"
            a3 == IF idle THEN [a2 EXCEPT !.trail = NestTrail(prev.nestPos),
                                          !.state = prev.directive]
                  ELSE a2
        IN  [map |-> m3,
             food |-> IF deliver THEN acc.food + 1 ELSE acc.food,
             ticksSinceLastFood |-> CounterAfter(acc.ticksSinceLastFood, deliver),
             ants |-> Append(acc.ants, a3)]

RECURSIVE ProcessAnts(_, _, _)
ProcessAnts(acc, prev, i) ==
    IF i > Len(prev.ants) THEN acc
    ELSE ProcessAnts(ProcessAnt(acc, prev, prev.ants[i]), prev, i + 1)

AliveCount(ants) == Cardinality({i \in DOMAIN ants : ants[i].isAlive})

(* A spawn test that does not ask whether the colony can pay. *)
SpawnDueUnpaid(newFood, newAnts) ==
    newFood >= 0 - SPAWN_FOOD_COST /\ AliveCount(newAnts) < MAX_ANTS

(* A spawn test that asks for a colony that would survive without it. *)
SpawnDueForSurvivors(newFood, newAnts) ==
    /\ newFood >= SPAWN_FOOD_COST
    /\ AliveCount(newAnts) < MAX_ANTS
    /\ AliveCount(newAnts) >= MIN_ANTS_TO_SURVIVE

(* A spawn test that lets a full colony grow. *)
SpawnDueUncapped(newFood, newAnts) ==
    newFood >= SPAWN_FOOD_COST /\ AliveCount(newAnts) <= MAX_ANTS

(* Lines 995-1001: whether this tick spawns an ant. *)
SpawnDue(newFood, newAnts) ==
    newFood >= SPAWN_FOOD_COST /\ AliveCount(newAnts) < MAX_ANTS

(* A spawn step that deducts the cost whether or not it spawns. *)
FoodAfterSpawnAlways(newFood, spawn) == newFood - SPAWN_FOOD_COST

(* Line 997: the food count after the spawn step. *)
FoodAfterSpawn(newFood, spawn) ==
    IF spawn THEN newFood - SPAWN_FOOD_COST ELSE newFood

(* A starvation test that fires a tick early. *)
WinLoseEarly(newFood, allAnts, ticksSinceLastFood) ==
    IF newFood >= WIN_FOOD THEN <<TRUE, TRUE>>
    ELSE IF AliveCount(allAnts) < MIN_ANTS_TO_SURVIVE THEN <<TRUE, FALSE>>
    ELSE IF ticksSinceLastFood >= STARVATION_TICKS THEN <<TRUE, FALSE>>
    ELSE <<FALSE, FALSE>>

(* A win test that asks for more than WIN_FOOD. *)
WinLoseStrict(newFood, allAnts, ticksSinceLastFood) ==
    IF newFood > WIN_FOOD THEN <<TRUE, TRUE>>
    ELSE IF AliveCount(allAnts) < MIN_ANTS_TO_SURVIVE THEN <<TRUE, FALSE>>
    ELSE IF ticksSinceLastFood > STARVATION_TICKS THEN <<TRUE, FALSE>>
    ELSE <<FALSE, FALSE>>

(* Lines 1006-1019: <<gameOver, won>> *)
WinLose(newFood, allAnts, ticksSinceLastFood) ==
    IF newFood >= WIN_FOOD THEN <<TRUE, TRUE>>
    ELSE IF AliveCount(allAnts) < MIN_ANTS_TO_SURVIVE THEN <<TRUE, FALSE>>
    ELSE IF ticksSinceLastFood > STARVATION_TICKS THEN <<TRUE, FALSE>>
    ELSE <<FALSE, FALSE>>

(* The state updater of gameTick. *)
gameTickState(prev) ==
    IF prev.gameOver THEN prev
    ELSE
    LET newMap == ReinforceNest(DecayPheromones(prev.map), prev.nestPos)
        acc == ProcessAnts([map |-> newMap,
                            food |-> prev.food,
                            ticksSinceLastFood |-> prev.ticksSinceLastFood + 1,
                            ants |-> <<>>], prev, 1)
        spawn == SpawnDue(acc.food, acc.ants)
        newFood == FoodAfterSpawn(acc.food, spawn)
        allAnts == IF spawn
                   THEN Append(acc.ants, createAnt(prev.nestPos, prev.antIdCounter))
                   ELSE acc.ants
        antIdCounter == IF spawn THEN prev.antIdCounter + 1 ELSE prev.antIdCounter
        end == WinLose(newFood, allAnts, acc.ticksSinceLastFood)
    IN  [prev EXCEPT !.map = Canon(acc.map),
                     !.ants = allAnts,
                     !.food = newFood,
                     !.tick = prev.tick + 1,
                     !.gameOver = end[1],
                     !.won = end[2],
                     !.ticksSinceLastFood = acc.ticksSinceLastFood,
                     !.antIdCounter = antIdCounter]

----------------------------------------------------------------------------
(* setDirective *)

(* A directive that is forced on returning ants too. *)
DirectedStateAll(antState, directive) == directive

(* Line 1088 *)
DirectedState(antState, directive) ==
    IF antState = "return" THEN "return" ELSE directive

setDirectiveState(prev, directive) ==
    [prev EXCEPT !.directive = directive,
                 !.ants = [k \in DOMAIN prev.ants |->
                     [prev.ants[k] EXCEPT !.state = DirectedState(@, directive)]]]

----------------------------------------------------------------------------
(* The state machine *)

(* ev records what the last logic tick of the game did: the number of ants  *)
(* that delivered, picked up and died in it and whether it spawned one.     *)
(* It is derived from the states before and after and read by no operation. *)
NoEvent == [delivered |-> 0, picked |-> 0, died |-> 0, spawned |-> FALSE]

TickEvent(prev, next) ==
    LET n == Len(prev.ants)
    IN  [delivered |-> Cardinality({i \in 1 .. n :
             prev.ants[i].carriedInfo = "food" /\ next.ants[i].carriedInfo = "none"}),
         picked |-> Cardinality({i \in 1 .. n :
             prev.ants[i].carriedInfo = "none" /\ next.ants[i].carriedInfo = "food"}),
         died |-> Cardinality({i \in 1 .. n :
             prev.ants[i].isAlive /\ ~next.ants[i].isAlive}),
         spawned |-> Len(next.ants) > n]

----------------------------------------------------------------------------
(* States of a game in progress.  Each is the result of a fixed run of the  *)
(* operations above from the state initGame sets, so each is a state the    *)
(* program reaches; each specification below explores MaxFrames motion      *)
(* passes and MaxTicks logic ticks from one of them.                        *)

Sign(a) == IF a > 0 THEN 1 ELSE IF a < 0 THEN -1 ELSE 0

(* F(v), with v evaluated in full, once, before F is. *)
Then(v, F(_)) == CHOOSE r \in {F(h) : h \in {w \in {v} : w = w}} : TRUE

(* One frame that takes ant i one tile towards tile (x, y), along x first. *)
FrameTowards(state, i, x, y, sample) ==
    LET pos == state.ants[i].pos
        nx == pos.x + Sign(x - pos.x)
        ny == IF pos.x # x THEN pos.y ELSE pos.y + Sign(y - pos.y)
        p == CHOOSE q \in Moves(state.nestPos, pos) : q.x = nx /\ q.y = ny
    IN  updatePhysicsState(state, FALSE, i, p, sample)

(* The frames that take ant i to tile (x, y). *)
RECURSIVE WalkTo(_, _, _, _, _)
WalkTo(state, i, x, y, sample) ==
    IF state.ants[i].pos.x = x /\ state.ants[i].pos.y = y THEN state
    ELSE Then(FrameTowards(state, i, x, y, sample),
              LAMBDA s : WalkTo(s, i, x, y, sample))

(* One frame within a tile of the nest ring that brings ant i within       *)
(* distance 1 of the nest centre.                                          *)
StepNear(state, i) ==
    LET p == [state.ants[i].pos EXCEPT !.near = TRUE]
    IN  IF p \in Moves(state.nestPos, state.ants[i].pos)
        THEN updatePhysicsState(state, FALSE, i, p, FALSE)
        ELSE state

(* n logic ticks in a row. *)
RECURSIVE Ticks(_, _)
Ticks(state, n) ==
    IF n = 0 THEN state
    ELSE IF n = 1 THEN gameTickState(state)
    ELSE Then(Ticks(state, n \div 2), LAMBDA s : Ticks(s, n - (n \div 2)))

(* The same frames for each of the ants is[1], is[2], ... in turn. *)
RECURSIVE WalkAll(_, _, _, _)
WalkAll(state, is, x, y) ==
    IF is = <<>> THEN state
    ELSE IF Len(is) = 1 THEN WalkTo(state, is[1], x, y, FALSE)
    ELSE LET h == Len(is) \div 2
         IN  Then(WalkAll(state, SubSeq(is, 1, h), x, y),
                  LAMBDA s : WalkAll(s, SubSeq(is, h + 1, Len(is)), x, y))

RECURSIVE NearAll(_, _)
NearAll(state, is) ==
    IF is = <<>> THEN state
    ELSE IF Len(is) = 1 THEN StepNear(state, is[1])
    ELSE LET h == Len(is) \div 2
         IN  Then(NearAll(state, SubSeq(is, 1, h)),
                  LAMBDA s : NearAll(s, SubSeq(is, h + 1, Len(is))))

FoodTile == [x |-> 9, y |-> 12]
SpiderTile == [x |-> 14, y |-> 15]
RingTile == [x |-> 10, y |-> 10]

(* A new game. *)
Fresh == initGameState

(* After the first tick (which spawns the second ant): the first ant has    *)
(* walked to the tile north of the food at (9, 12), the second to the tile  *)
(* north of the spider at (14, 15).                                         *)
Foraging ==
    Then(gameTickState(Fresh), LAMBDA s1 :
    Then(WalkTo(s1, 1, FoodTile.x, FoodTile.y - 1, TRUE), LAMBDA s2 :
         WalkTo(s2, 2, SpiderTile.x, SpiderTile.y - 1, TRUE)))

(* Both ants next to the spider at (14, 15). *)
Doomed ==
    Then(gameTickState(Fresh), LAMBDA s1 :
    Then(WalkTo(s1, 1, SpiderTile.x - 1, SpiderTile.y, TRUE), LAMBDA s2 :
         WalkTo(s2, 2, SpiderTile.x, SpiderTile.y - 1, TRUE)))

(* The first ant has picked up the food at (9, 12) and carried it back to   *)
(* the tile south-west of the nest, not yet within distance 1 of the nest   *)
(* centre.                                                                  *)
Carrying ==
    Then(WalkTo(Foraging, 1, FoodTile.x, FoodTile.y, TRUE), LAMBDA s1 :
    Then(gameTickState(s1), LAMBDA s2 :
         WalkTo(s2, 1, RingTile.x, RingTile.y, TRUE)))

(* After the first tick the first ant has walked west to the last tile    *)
(* the clamp allows, next to the west border.                               *)
AtEdge ==
    Then(gameTickState(Fresh), LAMBDA s1 :
         WalkTo(s1, 1, ClampToWorld(0), s1.nestPos.y, TRUE))

(* n crossings of the map by ant i along its row, between the last tiles   *)
(* the clamp allows, every frame sampling the trail.                        *)
RECURSIVE Legs(_, _, _)
Legs(state, i, n) ==
    IF n = 0 THEN state
    ELSE IF n = 1
    THEN WalkTo(state, i,
                IF state.ants[i].pos.x = ClampToWorld(0)
                THEN ClampToWorld(WORLD_SIZE) ELSE ClampToWorld(0),
                state.ants[i].pos.y, TRUE)
    ELSE Then(Legs(state, i, n \div 2), LAMBDA s : Legs(s, i, n - (n \div 2)))

(* After the first tick the first ant has walked to the row of the food at *)
(* (9, 12) and crossed the map until its trail holds TRAIL_MAX_LENGTH       *)
(* samples.                                                                 *)
LongTrail ==
    Then(gameTickState(Fresh), LAMBDA s1 :
    Then(WalkTo(s1, 1, ClampToWorld(0), FoodTile.y, TRUE), LAMBDA s2 :
         LET span == ClampToWorld(WORLD_SIZE) - ClampToWorld(0)
             left == TRAIL_MAX_LENGTH - Len(s2.ants[1].trail)
         IN  Legs(s2, 1, (left + span - 1) \div span)))

(* No delivery for STARVATION_TICKS ticks: the next tick without one        *)
(* starves the colony.                                                      *)
Starving == Ticks(Fresh, STARVATION_TICKS)

(* One foraging round of the ants is: all walk to the food, a tick picks    *)
(* it up, all walk back to the nest ring and within distance 1 of the nest, *)
(* a tick delivers.                                                         *)
Round(state, is) ==
    Then(WalkAll(state, is, FoodTile.x, FoodTile.y), LAMBDA s1 :
    Then(gameTickState(s1), LAMBDA s2 :
    Then(WalkAll(s2, is, RingTile.x, RingTile.y), LAMBDA s3 :
    Then(NearAll(s3, is), LAMBDA s4 : gameTickState(s4)))))

AllAnts(state) == [i \in 1 .. Len(state.ants) |-> i]

(* A round of all the ants there are while the colony is not MAX_ANTS       *)
(* strong; then a round of as many ants (not the first two) as bring the    *)
(* food to one short of WIN_FOOD.                                           *)
Forage(state) ==
    IF Len(state.ants) < MAX_ANTS THEN Round(state, AllAnts(state))
    ELSE IF state.food + 1 >= WIN_FOOD THEN state
    ELSE LET n == Min(Len(state.ants) - 2, WIN_FOOD - 1 - state.food)
         IN  Round(state, [i \in 1 .. n |-> i + 2])

(* n rounds in a row. *)
RECURSIVE Rounds(_, _)
Rounds(state, n) ==
    IF n = 0 THEN state
    ELSE IF n = 1 THEN Forage(state)
    ELSE Then(Rounds(state, n \div 2), LAMBDA s : Rounds(s, n - (n \div 2)))

(* Late in a game: a full colony, food one short of WIN_FOOD, ant 1 back    *)
(* within distance 1 of the nest centre with food, ant 2 next to the        *)
(* spider at (14, 15).                                                      *)
LateGame ==
    Then(Rounds(Fresh, WIN_FOOD), LAMBDA s1 :
    Then(WalkTo(s1, 1, FoodTile.x, FoodTile.y, FALSE), LAMBDA s2 :
    Then(gameTickState(s2), LAMBDA s3 :
    Then(WalkTo(s3, 1, RingTile.x, RingTile.y, FALSE), LAMBDA s4 :
    Then(StepNear(s4, 1), LAMBDA s5 :
         WalkTo(s5, 2, SpiderTile.x, SpiderTile.y - 1, FALSE))))))

(* The layouts map loading is tried on.  Each is named by an edit of        *)
(* MAP_TEMPLATE: none, one code unit of an inner row put to "N" or ".", or  *)
(* an inner row cut short by some code units.  mapTemplate holds the name   *)
(* of the layout in the place of MAP_TEMPLATE; a game of the program has    *)
(* the unedited one.                                                        *)
Original == [kind |-> "original"]

InnerRows == 2 .. (MAP_SIZE - 1)

InnerUnits == 3 .. MAP_SIZE

Layouts ==
    {Original}
    \cup {[kind |-> "put", row |-> r, unit |-> u, char |-> c] :
              r \in InnerRows, u \in InnerUnits, c \in {"N", "."}}
    \cup {[kind |-> "cut", row |-> r, by |-> k] : r \in InnerRows, k \in 1 .. MaxCut}

(* The rows of the layout a name stands for. *)
LayoutOf(name) ==
    IF name.kind = "put"
    THEN [MAP_TEMPLATE EXCEPT ![name.row][name.unit] = name.char]
    ELSE IF name.kind = "cut"
    THEN [MAP_TEMPLATE EXCEPT ![name.row] = SubSeq(@, 1, Len(@) - name.by)]
    ELSE MAP_TEMPLATE

(* The layout with a spider on the tile east of the nest. *)
SpiderAtHome ==
    [kind |-> "put", row |-> TemplateNest.y + 1, unit |-> TemplateNest.x + 2,
     char |-> "S"]

(* A game on the layout SpiderAtHome: after the first tick the first ant   *)
(* has walked to the food at (9, 12), picked it up in a tick and walked    *)
(* back to the tile south of the spider, within distance 1 of the nest     *)
(* centre.                                                                  *)
HazardAtHome ==
    LET types == TypesOf(LayoutOf(SpiderAtHome))
    IN  Then(gameTickState(GameStateOf(ParsedMap(types, NestOf(types)))), LAMBDA s1 :
        Then(WalkTo(s1, 1, FoodTile.x, FoodTile.y, TRUE), LAMBDA s2 :
        Then(gameTickState(s2), LAMBDA s3 :
        Then(WalkTo(s3, 1, s3.nestPos.x + 1, s3.nestPos.y + 1, TRUE), LAMBDA s4 :
             StepNear(s4, 1)))))

(* A new game on the layout SpiderAtHome, before its first tick: the only *)
(* ant has walked onto the spider east of the nest.                         *)
LastAntAtSpider ==
    LET types == TypesOf(LayoutOf(SpiderAtHome))
        new == GameStateOf(ParsedMap(types, NestOf(types)))
    IN  WalkTo(new, 1, new.nestPos.x + 1, new.nestPos.y, TRUE)

(* gameState before the first initGame: null (line 745). *)
NoGame == [gameState |-> "null"]

InitAt(state, frames) ==
    /\ gs = state
    /\ isPaused = FALSE
    /\ budget = [frames |-> frames, ticks |-> MaxTicks]
    /\ ev = NoEvent
    /\ mapTemplate = Original

Init == InitAt(Fresh, MaxFrames)

InitCarrying == InitAt(Carrying, MaxFrames)

InitDoomed == InitAt(Doomed, MaxFrames)

InitForaging == InitAt(Foraging, MaxFrames)

InitEdge == InitAt(AtEdge, MaxFrames)

InitTrail == InitAt(LongTrail, MaxFrames)

InitStarving == InitAt(Starving, MaxFrames)

InitLate == InitAt(LateGame, MaxLateFrames)

InitHazard ==
    /\ gs = HazardAtHome
    /\ isPaused = FALSE
    /\ budget = [frames |-> MaxFrames, ticks |-> MaxTicks]
    /\ ev = NoEvent
    /\ mapTemplate = SpiderAtHome

InitLastAnt ==
    /\ gs = LastAntAtSpider
    /\ isPaused = FALSE
    /\ budget = [frames |-> MaxFrames, ticks |-> MaxTicks]
    /\ ev = NoEvent
    /\ mapTemplate = SpiderAtHome

(* The page before its first initGame, with one of the layouts in the      *)
(* place of MAP_TEMPLATE.                                                   *)
InitLoad ==
    /\ mapTemplate \in Layouts
    /\ gs = NoGame
    /\ isPaused = FALSE
    /\ budget = [frames |-> 0, ticks |-> 0]
    /\ ev = NoEvent

(* initGame, as the Restart and Play Again buttons call it. *)
initGame ==
    /\ gs' = initGameState
    /\ isPaused' = FALSE
    /\ ev' = NoEvent
    /\ UNCHANGED <<budget, mapTemplate>>

(* The first initGame (the Initialize effect, lines 1066-1069), reading    *)
(* the layout mapTemplate names: parseMapTemplate has no path that rejects  *)
(* a layout, and initGame builds the game state from whatever it returns.   *)
loadMap ==
    /\ gs = NoGame
    /\ gs' = LET types == TypesOf(LayoutOf(mapTemplate))
             IN  GameStateOf(ParsedMap(types, NestOf(types)))
    /\ isPaused' = FALSE
    /\ UNCHANGED <<budget, ev, mapTemplate>>

(* One animation frame (lines 1043-1047): updatePhysics on the state. *)
updatePhysics ==
    /\ budget.frames > 0
    /\ \E i \in DOMAIN gs.ants :
         \E p \in Moves(gs.nestPos, gs.ants[i].pos), sample \in BOOLEAN :
            /\ gs' = updatePhysicsState(gs, isPaused, i, p, sample)
    /\ budget' = [budget EXCEPT !.frames = @ - 1]
    /\ UNCHANGED <<isPaused, ev, mapTemplate>>

(* One firing of the tick interval, which exists while the game is not     *)
(* paused (lines 1072-1079); a firing after the game ended takes the early *)
(* return of line 902.                                                     *)
gameTick ==
    /\ ~isPaused
    /\ budget.ticks > 0
    /\ gs' = gameTickState(gs)
    /\ ev' = IF gs.gameOver THEN ev ELSE TickEvent(gs, gs')
    /\ budget' = [budget EXCEPT !.ticks = @ - 1]
    /\ UNCHANGED <<isPaused, mapTemplate>>

setDirective ==
    /\ \E directive \in Directives : gs' = setDirectiveState(gs, directive)
    /\ UNCHANGED <<isPaused, budget, ev, mapTemplate>>

(* The Pause / Resume button: setIsPaused(!isPaused). *)
togglePause ==
    /\ isPaused' = ~isPaused
    /\ UNCHANGED <<gs, budget, ev, mapTemplate>>

Next == initGame \/ updatePhysics \/ gameTick \/ setDirective \/ togglePause

(* A new game. *)
Spec == Init /\ [][Next]_vars

(* A game with an ant on its way home with food. *)
SpecCarrying == InitCarrying /\ [][Next]_vars

(* A game with an ant next to food and an ant next to a spider. *)
SpecForaging == InitForaging /\ [][Next]_vars

(* A game with both ants next to a spider. *)
SpecDoomed == InitDoomed /\ [][Next]_vars

(* A game with an ant at the edge of the world. *)
SpecEdge == InitEdge /\ [][Next]_vars

(* A game with an ant whose trail is full. *)
SpecTrail == InitTrail /\ [][Next]_vars

(* A game on the brink of starvation. *)
SpecStarving == InitStarving /\ [][Next]_vars

(* A game one delivery short of the goal. *)
SpecLate == InitLate /\ [][Next]_vars

(* A game in progress on another layout than MAP_TEMPLATE, without the     *)
(* Restart button.                                                          *)
NextPlay == updatePhysics \/ gameTick \/ setDirective \/ togglePause

(* A game with a spider next to the nest and an ant coming home with food. *)
SpecHazard == InitHazard /\ [][NextPlay]_vars

(* A new game with a spider next to the nest and the only ant on it. *)
SpecLastAnt == InitLastAnt /\ [][NextPlay]_vars

(* A game left to itself: no button is pressed.  The animation loop and    *)
(* the tick interval keep firing while the page is open (requestAnimation- *)
(* Frame re-arms itself in every frame, setInterval fires every            *)
(* GAME_TICK_INTERVAL while the game is not paused), so a motion pass or a *)
(* tick that stays possible is taken.                                       *)
NextUnattended == updatePhysics \/ gameTick

SpecUnattended ==
    /\ InitStarving
    /\ [][NextUnattended]_vars
    /\ WF_vars(updatePhysics)
    /\ WF_vars(gameTick)

(* Map loading.  Until the first initGame has set a game state, every      *)
(* other operation returns the null state as it is (lines 901-902,         *)
(* 1044-1045, 1083).                                                        *)
NextLoad == loadMap

SpecLoad == InitLoad /\ [][NextLoad]_vars

----------------------------------------------------------------------------
(* The discrete variant (unnamed/part_000): the same page with ants that   *)
(* step from tile to tile in the logic tick and no motion pass.  Its      *)
(* MAP_TEMPLATE and the loops of its parseMapTemplate are those of         *)
(* page.tsx.  A game of this variant is kept in the same variables; its    *)
(* tiles keep type, foodPheromone and revealed, its ants id, pos, state,   *)
(* carriedInfo, trailHistory, trailIndex and isAlive.  homePheromone,      *)
(* hasTrail, trailStrength, heading and ticksSinceSpawn are not kept: no   *)
(* decision of the tick reads them (hasTrail only weighs a random choice). *)

GRID_PHEROMONE_DECAY == 5
GRID_INITIAL_ANTS == 2
GRID_TRAIL_LIMIT == 100
GRID_CARRY_DEPOSIT == 500
GRID_NEST_DEPOSIT == 300

GridBlank == [type |-> "ground", foodPheromone |-> 0, revealed |-> FALSE]

(* map[y][x] *)
GridTileAt(map, p) ==
    IF <<p.x, p.y>> \in DOMAIN map THEN map[<<p.x, p.y>>] ELSE GridBlank

GridSetTile(map, p, tile) ==
    [t \in DOMAIN map \cup {<<p.x, p.y>>} |->
        IF t = <<p.x, p.y>> THEN tile ELSE map[t]]

GridCanon(f) ==
    LET keep == {t \in DOMAIN f : f[t] # GridBlank}
    IN  [t \in keep |-> f[t]]

(* parseMapTemplate of part_000 (lines 102-170), on the fields kept. *)
parseMapTemplateGrid ==
    LET nestPos == [x |-> TemplateNest.x, y |-> TemplateNest.y]
        tiles == [t \in AllTiles |->
            LET type == TemplateTypes[t[2]][t[1]]
            IN  [type |-> type,
                 foodPheromone |-> 0,
                 revealed |-> \/ type = "nest"
                              \/ type = "border"
                              \/ InNestArea(nestPos, t[1], t[2])]]
    IN  [tiles |-> GridCanon(tiles), nestPos |-> nestPos]

(* One ant of createInitialAnts (lines 181-198), and the ant the tick      *)
(* spawns (lines 563-573) after its state is set.                          *)
createGridAnt(nestPos, id) ==
    [id |-> id,
     pos |-> nestPos,
     state |-> "explore",
     carriedInfo |-> "none",
     trailHistory |-> <<nestPos>>,
     trailIndex |-> 0,
     isAlive |-> TRUE]

(* Lines 231-249 *)
initGameStateGrid ==
    [map |-> parseMapTemplateGrid.tiles,
     ants |-> [i \in 1 .. GRID_INITIAL_ANTS |->
                  createGridAnt(parseMapTemplateGrid.nestPos, i - 1)],
     directive |-> "explore",
     food |-> INITIAL_FOOD,
     maxFood |-> WIN_FOOD,
     tick |-> 0,
     gameOver |-> FALSE,
     won |-> FALSE,
     ticksSinceLastFood |-> 0,
     nestPos |-> parseMapTemplateGrid.nestPos,
     antIdCounter |-> GRID_INITIAL_ANTS]

(* distance (lines 200-202): Manhattan. *)
distance(a, b) == Abs(a.x - b.x) + Abs(a.y - b.y)

(* dirs of getNeighbors, in its order. *)
Dirs == << <<0, -1>>, <<1, 0>>, <<0, 1>>, <<-1, 0>>,
           <<1, -1>>, <<1, 1>>, <<-1, 1>>, <<-1, -1>> >>

(* getNeighbors (lines 204-218) *)
getNeighbors(pos) ==
    LET all == [k \in 1 .. Len(Dirs) |->
                    [x |-> pos.x + Dirs[k][1], y |-> pos.y + Dirs[k][2]]]
        inside(p) == InBounds(p.x, p.y)
    IN  SelectSeq(all, inside)

SeqRange(s) == {s[k] : k \in DOMAIN s}

(* s.sort(by key)[0] with the stable sort of the engine: the first entry   *)
(* of s with the least key.                                                 *)
FirstLeast(s, key(_)) ==
    LET k == CHOOSE i \in DOMAIN s :
                 /\ \A j \in DOMAIN s : key(s[i]) <= key(s[j])
                 /\ \A j \in 1 .. (i - 1) : key(s[j]) > key(s[i])
    IN  s[k]

(* A draw from the candidates s, Math.random having decided for direction  *)
(* d of Dirs: the candidate in that direction, or the first one if there   *)
(* is none there.                                                           *)
Draw(s, pos, d) ==
    LET p == [x |-> pos.x + Dirs[d][1], y |-> pos.y + Dirs[d][2]]
    IN  IF p \in SeqRange(s) THEN p ELSE s[1]

NoTarget == [x |-> -1, y |-> -1]

(* Lines 447-462 and 477-490: a step back along the trail if the tile      *)
(* before trailIndex is a neighbour, else the neighbour nearest the nest.  *)
Backtrack(a, valid, nestPos) ==
    LET toNest(p) == distance(p, nestPos)
        back == IF a.trailIndex > 0 /\ a.trailIndex <= Len(a.trailHistory)
                THEN a.trailHistory[a.trailIndex] ELSE NoTarget
    IN  IF back \in SeqRange(valid)
        THEN [ant |-> [a EXCEPT !.trailIndex = @ - 1], target |-> back]
        ELSE [ant |-> a, target |-> FirstLeast(valid, toNest)]

(* Lines 491-503: patrol within 2 tiles of the nest. *)
Patrol(valid, pos, nestPos, d) ==
    LET close(p) == distance(p, nestPos) <= 2
        nearNest == SelectSeq(valid, close)
    IN  IF nearNest # <<>> THEN Draw(nearNest, pos, d) ELSE valid[1]

(* Lines 389-397: the explorer with no unvisited neighbour heads back.     *)
StuckExplorer(a, valid, nestPos) ==
    LET toNest(p) == distance(p, nestPos)
    IN  [ant |-> [a EXCEPT !.state = "return",
                           !.trailIndex = Len(a.trailHistory) - 1],
         target |-> FirstLeast(valid, toNest)]

(* The switch on newAnt.state (lines 345-505): the ant and its target.     *)
(* ant is the ant before the tick, a the ant after the delivery test.      *)
ChooseTarget(map, prev, ant, a, valid, d) ==
    LET nestPos == prev.nestPos
        toNest(p) == distance(p, nestPos)
    IN  IF a.state = "explore"
        THEN LET visited == SeqRange(ant.trailHistory)
                 fresh(p) == p \notin visited
                 unvisited == SelectSeq(valid, fresh)
             IN  IF unvisited # <<>>
                 THEN [ant |-> a, target |-> Draw(unvisited, ant.pos, d)]
                 ELSE StuckExplorer(a, valid, nestPos)
        ELSE IF a.state = "harvest"
        THEN LET n == Len(ant.trailHistory)
                 recent == {ant.trailHistory[k] : k \in Max(1, n - 4) .. n}
                 marked(p) == GridTileAt(map, p).foodPheromone > 0 /\ p \notin recent
                 foodNeighbors == SelectSeq(valid, marked)
                 weak(p) == 0 - GridTileAt(map, p).foodPheromone
             IN  IF foodNeighbors # <<>>
                 THEN [ant |-> a, target |-> FirstLeast(foodNeighbors, weak)]
                 ELSE IF distance(ant.pos, nestPos) <= 1
                 THEN [ant |-> a, target |-> Patrol(valid, ant.pos, nestPos, d)]
                 ELSE [ant |-> a, target |-> FirstLeast(valid, toNest)]
        ELSE IF a.state = "return"
        THEN IF distance(ant.pos, nestPos) <= 1 /\ a.carriedInfo = "none"
             THEN [ant |-> [a EXCEPT !.trailHistory = <<nestPos>>,
                                     !.trailIndex = 0,
                                     !.state = prev.directive],
                   target |-> NoTarget]
             ELSE Backtrack(a, valid, nestPos)
        ELSE IF distance(ant.pos, nestPos) > 2
             THEN Backtrack(a, valid, nestPos)
             ELSE [ant |-> [a EXCEPT !.trailHistory = <<nestPos>>,
                                     !.trailIndex = 0],
                   target |-> Patrol(valid, ant.pos, nestPos, d)]

AddFoodPheromone(map, p, amount) ==
    GridSetTile(map, p, [GridTileAt(map, p) EXCEPT
                            !.foodPheromone = Min(One, @ + amount)])

(* Lines 315-317 *)
RevealHistory(map, trailHistory) ==
    LET ts == {<<trailHistory[k].x, trailHistory[k].y>> : k \in DOMAIN trailHistory}
    IN  [t \in DOMAIN map \cup ts |->
            IF t \in ts
            THEN [GridTileAt(map, [x |-> t[1], y |-> t[2]]) EXCEPT !.revealed = TRUE]
            ELSE map[t]]

(* A step that cuts the trail and leaves the cursor where the uncut trail  *)
(* ended.                                                                   *)
StepToCursorKept(a, target) ==
    IF a.state \in {"explore", "harvest"}
    THEN LET t == Append(a.trailHistory, target)
             cut == IF Len(t) > GRID_TRAIL_LIMIT
                    THEN SubSeq(t, Len(t) - GRID_TRAIL_LIMIT + 1, Len(t)) ELSE t
         IN  [a EXCEPT !.pos = target, !.trailHistory = cut,
                       !.trailIndex = Len(t) - 1]
    ELSE [a EXCEPT !.pos = target]

(* Lines 507-522: the step to the target and the trail of an ant going out. *)
StepTo(a, target) ==
    IF a.state \in {"explore", "harvest"}
    THEN LET t == Append(a.trailHistory, target)
             cut == IF Len(t) > GRID_TRAIL_LIMIT
                    THEN SubSeq(t, Len(t) - GRID_TRAIL_LIMIT + 1, Len(t)) ELSE t
         IN  [a EXCEPT !.pos = target, !.trailHistory = cut,
                       !.trailIndex = Len(cut) - 1]
    ELSE [a EXCEPT !.pos = target]

(* Lines 299-333: the deposit of a carrier and the delivery at the nest;   *)
(* the accumulator and the ant after them.                                  *)
DeliverAtNest(acc, prev, ant) ==
    LET nestPos == prev.nestPos
        m1 == IF ant.carriedInfo = "food"
              THEN AddFoodPheromone(acc.map, ant.pos, GRID_CARRY_DEPOSIT)
              ELSE acc.map
    IN  IF distance(ant.pos, nestPos) <= 1 /\ ant.carriedInfo = "food"
        THEN [acc |-> [acc EXCEPT
                          !.map = AddFoodPheromone(RevealHistory(m1, ant.trailHistory),
                                                   nestPos, GRID_NEST_DEPOSIT),
                          !.food = @ + 1,
                          !.ticksSinceLastFood = 0],
              ant |-> [ant EXCEPT !.carriedInfo = "none",
                                  !.trailHistory = <<nestPos>>,
                                  !.trailIndex = 0,
                                  !.state = StateAfterDelivery(prev.directive)]]
        ELSE [acc |-> [acc EXCEPT !.map = m1], ant |-> ant]

(* Lines 336-341 *)
validNeighbors(map, pos) ==
    LET notBorder(p) == GridTileAt(map, p).type # "border"
    IN  SelectSeq(getNeighbors(pos), notBorder)

(* Lines 507-556: the ant a, which had chosen target while goingOut or     *)
(* not, on that tile.                                                       *)
ArriveAt(acc, a, target, goingOut) ==
    LET newTile == GridTileAt(acc.map, target)
        pick == newTile.type = "food" /\ a.carriedInfo = "none" /\ goingOut
        picked == IF pick THEN [a EXCEPT !.carriedInfo = "food", !.state = "return"]
                  ELSE a
        m3 == IF pick
              THEN GridSetTile(acc.map, target, [newTile EXCEPT !.foodPheromone = One])
              ELSE acc.map
    IN  IF newTile.type = "spider"
        THEN [acc EXCEPT !.ants = Append(@, [a EXCEPT !.isAlive = FALSE])]
        ELSE [acc EXCEPT
                 !.map = IF picked.carriedInfo = "food" /\ picked.state = "return"
                         THEN AddFoodPheromone(m3, target, GRID_CARRY_DEPOSIT)
                         ELSE m3,
                 !.ants = Append(@, picked)]

(* Lines 288-556: the map callback for one live ant. *)
ProcessGridAnt(acc, prev, ant, d) ==
    Then(DeliverAtNest(acc, prev, ant), LAMBDA r :
    Then(validNeighbors(r.acc.map, ant.pos), LAMBDA valid :
        IF valid = <<>>
        THEN [r.acc EXCEPT !.ants = Append(@, r.ant)]
        ELSE Then(ChooseTarget(r.acc.map, prev, ant, r.ant, valid, d), LAMBDA choice :
            IF choice.target = NoTarget
            THEN [r.acc EXCEPT !.ants = Append(@, choice.ant)]
            ELSE Then(StepTo(choice.ant, choice.target), LAMBDA moved :
                ArriveAt(r.acc, moved, choice.target,
                         choice.ant.state \in {"explore", "harvest"})))))

RECURSIVE ProcessGridAnts(_, _, _, _)
ProcessGridAnts(acc, prev, live, ds) ==
    IF live = <<>> THEN acc
    ELSE Then(ProcessGridAnt(acc, prev, Head(live), ds[Len(acc.ants) + 1]),
              LAMBDA next : ProcessGridAnts(next, prev, Tail(live), ds))

IsLive(a) == a.isAlive

(* Lines 256-264: the decay of the food pheromone. *)
DecayGridMap(map) ==
    [t \in DOMAIN map |->
        [map[t] EXCEPT !.foodPheromone = Max(0, @ - GRID_PHEROMONE_DECAY)]]

(* Lines 558-606: the spawn, the end of the game and the new state, from   *)
(* what the ants left in acc.                                               *)
FinishGridTick(prev, acc) ==
    LET spawn == SpawnDue(acc.food, acc.ants)
        newFood == FoodAfterSpawn(acc.food, spawn)
        spawned == [createGridAnt(prev.nestPos, prev.antIdCounter) EXCEPT
                       !.state = IF prev.directive = "defend"
                                 THEN "defend" ELSE "explore"]
        allAnts == IF spawn THEN Append(acc.ants, spawned) ELSE acc.ants
        end == WinLose(newFood, allAnts, acc.ticksSinceLastFood)
    IN  [prev EXCEPT !.map = GridCanon(acc.map),
                     !.ants = allAnts,
                     !.food = newFood,
                     !.tick = prev.tick + 1,
                     !.gameOver = end[1],
                     !.won = end[2],
                     !.ticksSinceLastFood = acc.ticksSinceLastFood,
                     !.antIdCounter = IF spawn THEN @ + 1 ELSE @]

(* The state updater of gameTick (lines 252-607); ds[k] is what            *)
(* Math.random decides for the k-th live ant.                               *)
gameTickStateGrid(prev, ds) ==
    IF prev.gameOver THEN prev
    ELSE Then([map |-> DecayGridMap(prev.map),
               food |-> prev.food,
               ticksSinceLastFood |-> prev.ticksSinceLastFood + 1,
               ants |-> <<>>], LAMBDA start :
         Then(SelectSeq(prev.ants, IsLive), LAMBDA live :
         Then(ProcessGridAnts(start, prev, live, ds), LAMBDA acc :
              FinishGridTick(prev, acc))))

(* The ticks of a game in which Math.random decides, tick after tick, for  *)
(* the directions plan[1], plan[2], ...                                     *)
RECURSIVE GridTicks(_, _)
GridTicks(state, plan) ==
    IF plan = <<>> THEN state
    ELSE IF Len(plan) = 1
    THEN Then(state, LAMBDA s : gameTickStateGrid(s, plan[1]))
    ELSE LET h == Len(plan) \div 2
         IN  Then(GridTicks(state, SubSeq(plan, 1, h)),
                  LAMBDA s : GridTicks(s, SubSeq(plan, h + 1, Len(plan))))

(* Eight ticks of a new game.  The first ant has gone round the tile       *)
(* south-east of the nest (east, east, south, south, west, west, north)    *)
(* and stepped onto it: every neighbour of its tile is on its trail.  The  *)
(* second ant has walked west, the ant spawned by the first tick north.    *)
Cornered ==
    GridTicks(initGameStateGrid,
              << <<2, 4, 1>>, <<2, 4, 1>>, <<3, 4, 1>>, <<3, 4, 1>>,
                 <<4, 4, 1>>, <<4, 4, 1>>, <<1, 4, 1>>, <<2, 4, 1>> >>)

InitGrid ==
    /\ gs = Cornered
    /\ isPaused = FALSE
    /\ budget = [frames |-> 0, ticks |-> MaxGridTicks]
    /\ ev = NoEvent
    /\ mapTemplate = Original

(* initGame of part_000 (lines 231-249) *)
initGameGrid ==
    /\ gs' = initGameStateGrid
    /\ isPaused' = FALSE
    /\ UNCHANGED <<budget, ev, mapTemplate>>

(* One firing of the tick interval of part_000 (lines 614-622). *)
gameTickGrid ==
    /\ ~isPaused
    /\ budget.ticks > 0
    /\ \E ds \in [1 .. Len(gs.ants) -> DOMAIN Dirs] :
           gs' = gameTickStateGrid(gs, ds)
    /\ budget' = [budget EXCEPT !.ticks = @ - 1]
    /\ UNCHANGED <<isPaused, ev, mapTemplate>>

(* setDirective of part_000 (lines 624-636): that of page.tsx. *)
setDirectiveGrid ==
    /\ \E directive \in Directives : gs' = setDirectiveState(gs, directive)
    /\ UNCHANGED <<isPaused, budget, ev, mapTemplate>>

NextGrid == initGameGrid \/ gameTickGrid \/ setDirectiveGrid \/ togglePause

(* A game of the discrete variant with an explorer that has walked itself  *)
(* in.                                                                      *)
SpecGrid == InitGrid /\ [][NextGrid]_vars

(* Two ticks of a new game of the discrete variant: the first ant has      *)
(* walked south-west twice, to the tile north of the food at (9, 12); the  *)
(* second ant has walked west, the ant spawned by the first tick north.    *)
GridNearFood ==
    GridTicks(initGameStateGrid, << <<7, 4, 1>>, <<7, 4, 1>> >>)

InitGridForaging ==
    /\ gs = GridNearFood
    /\ isPaused = FALSE
    /\ budget = [frames |-> 0, ticks |-> MaxGridTicks]
    /\ ev = NoEvent
    /\ mapTemplate = Original

(* Three ticks: the first ant has stepped onto the food at (9, 12) and     *)
(* picked it up; its way back is the trail it came by.                      *)
GridCarrier ==
    GridTicks(initGameStateGrid, << <<7, 4, 1>>, <<7, 4, 1>>, <<3, 4, 1>> >>)

(* A walk of the first ant from the nest that meets no tile twice and no   *)
(* food or spider: east along row 9, then west and east along the rows     *)
(* below, as directions of Dirs.                                            *)
SnakePath ==
    Rep(<<2>>, 8) \o <<3>> \o Rep(<<4>>, 19) \o <<3>> \o Rep(<<2>>, 19)
    \o <<3>> \o Rep(<<4>>, 9) \o <<3>> \o Rep(<<4>>, 10) \o <<3>>
    \o Rep(<<2>>, 19) \o <<3>> \o Rep(<<4>>, 4) \o <<3>> \o Rep(<<4>>, 15)

(* The first ant has walked SnakePath until its trailHistory holds         *)
(* GRID_TRAIL_LIMIT tiles: its next step outward evicts the oldest.  The   *)
(* other ants have gone west and north where they could.                    *)
GridLongTrail ==
    GridTicks(initGameStateGrid,
              [k \in 1 .. (GRID_TRAIL_LIMIT - 1) |-> <<SnakePath[k], 4, 1>>])

InitGridTrail ==
    /\ gs \in {Cornered, GridCarrier, GridLongTrail}
    /\ isPaused = FALSE
    /\ budget = [frames |-> 0, ticks |-> MaxGridTicks]
    /\ ev = NoEvent
    /\ mapTemplate = Original

(* Games of the discrete variant with a stuck explorer, with a carrier on  *)
(* its way back and with a trail about to be cut.                           *)
SpecGridTrail == InitGridTrail /\ [][NextGrid]_vars

(* The variant a game state is of: only the ants of the discrete variant   *)
(* have a trailIndex.  (No roster is ever empty: dead ants are dropped     *)
(* only by a tick that runs, and a tick that leaves no live ant either     *)
(* spawns one or ends the game.)                                            *)
IsGridGame == "trailIndex" \in DOMAIN gs.ants[1]

InitEither == InitForaging \/ InitGridForaging

(* The operations of the variant the game is of. *)
NextEither ==
    \/ ~IsGridGame /\ initGame
    \/ ~IsGridGame /\ updatePhysics
    \/ ~IsGridGame /\ gameTick
    \/ ~IsGridGame /\ setDirective
    \/ IsGridGame /\ initGameGrid
    \/ IsGridGame /\ gameTickGrid
    \/ IsGridGame /\ setDirectiveGrid
    \/ togglePause

(* A game of either variant, an ant next to food. *)
SpecEither == InitEither /\ [][NextEither]_vars

----------------------------------------------------------------------------
(* The kinematics of updatePhysics (page.tsx): positions, velocities and   *)
(* forces in fixed-point arithmetic.  A world unit is Unit; every product  *)
(* and quotient of the code is rounded to the nearest whole number, as the *)
(* doubles of the code round to the nearest representable one.  An ant of  *)
(* this section is an ant of the sections above with a velocity, a         *)
(* wanderAngle and, in its pos, the coordinates ux and uy in units next to *)
(* the tile and the near flag gameTick reads.                               *)

Unit == 10000
ANT_MAX_SPEED == 240
ANT_MAX_FORCE == 12
ANT_WANDER_STRENGTH == 3
ANT_WANDER_RATE == 100
BORDER_MARGIN == 15000
BORDER_STRENGTH == 2
WORLD_EDGE == 12000
LenScale == 10
MaxRoot == 46340

(* Motion passes and logic ticks explored from each state of the           *)
(* kinematic specification.                                                 *)
MaxKinFrames == 1
MaxKinTicks == 1

(* a / b, rounded to the nearest whole number. *)
RoundDiv(a, b) == Sign(a) * ((2 * Abs(a) + b) \div (2 * b))

RECURSIVE SqrtBetween(_, _, _)
SqrtBetween(n, lo, hi) ==
    IF lo >= hi THEN lo
    ELSE LET mid == (lo + hi + 1) \div 2
         IN  IF mid * mid <= n THEN SqrtBetween(n, mid, hi)
             ELSE SqrtBetween(n, lo, mid - 1)

(* Math.sqrt, rounded to the nearest whole number. *)
Sqrt(n) ==
    LET r == SqrtBetween(n, 0, MaxRoot)
    IN  IF n - r * r > r THEN r + 1 ELSE r

vecAdd(a, b) == [x |-> a.x + b.x, y |-> a.y + b.y]

vecSub(a, b) == [x |-> a.x - b.x, y |-> a.y - b.y]

(* vec2.scale by a factor given in tenths. *)
vecScale(v, tenths) == [x |-> RoundDiv(v.x * tenths, 10), y |-> RoundDiv(v.y * tenths, 10)]

(* vec2.length, in LenScale-ths of a unit. *)
vecLength(v) == Sqrt(LenScale * LenScale * (v.x * v.x + v.y * v.y))

(* vec2.normalize: a vector of length Unit, or the zero vector. *)
vecNormalize(v) ==
    Then(vecLength(v), LAMBDA len :
        IF len > 0
        THEN [x |-> RoundDiv(v.x * Unit * LenScale, len),
              y |-> RoundDiv(v.y * Unit * LenScale, len)]
        ELSE [x |-> 0, y |-> 0])

(* vec2.scale of a normalized vector to a length in units. *)
vecOfLength(n, length) ==
    [x |-> RoundDiv(n.x * length, Unit), y |-> RoundDiv(n.y * length, Unit)]

(* A limit that bounds each component instead of the length. *)
vecLimitEachAxis(v, max) ==
    [x |-> Max(0 - max, Min(max, v.x)), y |-> Max(0 - max, Min(max, v.y))]

(* vec2.limit: a vector longer than max is normalized and scaled to max. *)
vecLimit(v, max) ==
    IF vecLength(v) > max * LenScale
    THEN vecOfLength(vecNormalize(v), max)
    ELSE v

(* The directions the model draws angles from, as vec2.fromAngle(angle)    *)
(* of length Unit: the multiples of a quarter of pi.                        *)
Headings ==
    << [x |-> 10000, y |-> 0], [x |-> 7071, y |-> 7071],
       [x |-> 0, y |-> 10000], [x |-> 0 - 7071, y |-> 7071],
       [x |-> 0 - 10000, y |-> 0], [x |-> 0 - 7071, y |-> 0 - 7071],
       [x |-> 0, y |-> 0 - 10000], [x |-> 7071, y |-> 0 - 7071] >>

(* The angles of Headings, in thousandths of a radian. *)
Angles == <<0, 785, 1571, 2356, 3142, 3927, 4712, 5498>>

(* The record of a position: the tile it lies in, whether it is within a   *)
(* distance of 1 of the nest centre, and its coordinates in units.          *)
KinPos(nestPos, ux, uy) ==
    LET dx == ux - (nestPos.x * Unit + Unit \div 2)
        dy == uy - (nestPos.y * Unit + Unit \div 2)
    IN  [x |-> ux \div Unit,
         y |-> uy \div Unit,
         near |-> /\ Abs(dx) < Unit
                  /\ Abs(dy) < Unit
                  /\ dx * dx + dy * dy < Unit * Unit,
         ux |-> ux,
         uy |-> uy]

(* createAnt with its velocity and wanderAngle: the angle Math.random      *)
(* gives is Angles[h].                                                      *)
createAntKin(nestPos, id, h) ==
    [id |-> id,
     pos |-> KinPos(nestPos, nestPos.x * Unit + Unit \div 2,
                    nestPos.y * Unit + Unit \div 2),
     velocity |-> vecOfLength(Headings[h], ANT_MAX_SPEED \div 2),
     state |-> "explore",
     carriedInfo |-> "none",
     trail |-> <<[x |-> nestPos.x, y |-> nestPos.y]>>,
     isAlive |-> TRUE,
     wanderAngle |-> Angles[h]]

(* nestPos - ant.pos in hundredths of a world unit. *)
ToNest(ant, nestPos) ==
    [x |-> RoundDiv(nestPos.x * Unit + Unit \div 2 - ant.pos.ux, 100),
     y |-> RoundDiv(nestPos.y * Unit + Unit \div 2 - ant.pos.uy, 100)]

(* vec2.distance(ant.pos, nestPos) in hundredths of a world unit. *)
distToNest(ant, nestPos) ==
    LET d == ToNest(ant, nestPos) IN Sqrt(d.x * d.x + d.y * d.y)

(* steer.seek towards a target in the direction desired (a vector of any   *)
(* length), with the weight in tenths.                                      *)
seek(ant, desired, tenths) ==
    LET desiredNorm == vecOfLength(vecNormalize(desired), ANT_MAX_SPEED)
        steerForce == vecSub(desiredNorm, ant.velocity)
    IN  vecScale(vecLimit(steerForce, ANT_MAX_FORCE), tenths)

(* steer.flee *)
flee(ant, desired, tenths) == vecScale(seek(ant, desired, 10), 0 - tenths)

(* steer.wander: the force towards the point of the circle ahead of the    *)
(* ant (1.5 ahead, radius 0.8) that lies in direction Headings[h] of its   *)
(* centre, and the drifted angle.                                           *)
wander(ant, h, drift) ==
    LET velocity == IF vecLength(ant.velocity) > 10 * LenScale
                    THEN ant.velocity
                    ELSE vecOfLength(Headings[h], 100)
        ahead == vecNormalize(velocity)
        desired == [x |-> RoundDiv(15 * ahead.x + 8 * Headings[h].x, 100),
                    y |-> RoundDiv(15 * ahead.y + 8 * Headings[h].y, 100)]
    IN  [force |-> vecScale(seek(ant, desired, 10), ANT_WANDER_STRENGTH),
         newAngle |-> ant.wanderAngle + drift]

(* steer.avoidBorders with the margin of 1.5 and the strength of 0.02. *)
avoidBorders(ant) ==
    LET far == WORLD_SIZE * Unit - BORDER_MARGIN
        push(c) == (IF c < BORDER_MARGIN
                    THEN RoundDiv(BORDER_STRENGTH * (BORDER_MARGIN - c), 100) ELSE 0)
                   - (IF c > far
                      THEN RoundDiv(BORDER_STRENGTH * (c - far), 100) ELSE 0)
    IN  [x |-> push(ant.pos.ux), y |-> push(ant.pos.uy)]

(* steer.followPheromone with a pheromone strength of 0.5 or more: the     *)
(* gradient at the ant points in direction Headings[g] and the target lies *)
(* 2 along it (desired is in hundredths of a world unit); g = 0 stands for *)
(* a strength under 0.01.                                                   *)
followPheromone(ant, g, tenths) ==
    IF g = 0 THEN [x |-> 0, y |-> 0]
    ELSE LET desired == [x |-> RoundDiv(2 * Headings[g].x, 100),
                         y |-> RoundDiv(2 * Headings[g].y, 100)]
         IN  vecScale(seek(ant, desired, 10), tenths)

(* What a frame draws for an ant: the direction h of its wander target,    *)
(* the drift of its wander angle and the direction g of the pheromone      *)
(* gradient where it stands (0: no pheromone).                              *)
Steerings ==
    { [h |-> 5, drift |-> 0, g |-> 5],
      [h |-> 2, drift |-> ANT_WANDER_RATE, g |-> 0],
      [h |-> 7, drift |-> 0 - ANT_WANDER_RATE, g |-> 0] }

(* Lines 790-864: the force and the wander angle the state of the ant      *)
(* gives.                                                                   *)
StateForce(ant, nestPos, in) ==
    LET w == wander(ant, in.h, in.drift)
        home == ToNest(ant, nestPos)
        dist == distToNest(ant, nestPos)
        zero == [x |-> 0, y |-> 0]
    IN  CASE ant.state = "explore" ->
               [force |-> vecAdd(vecAdd(w.force,
                              IF dist < 600 THEN flee(ant, home, 5) ELSE zero),
                              followPheromone(ant, in.g, 3)),
                wanderAngle |-> w.newAngle]
          [] ant.state = "harvest" ->
               [force |-> vecAdd(IF in.g # 0
                                 THEN followPheromone(ant, in.g, 15)
                                 ELSE vecAdd(vecScale(w.force, 5),
                                         IF dist > 400 THEN seek(ant, home, 3)
                                         ELSE zero),
                                 vecScale(w.force, 2)),
                wanderAngle |-> w.newAngle]
          [] ant.state = "return" ->
               [force |-> vecAdd(seek(ant, home, 12),
                                 followPheromone(ant, in.g, 4)),
                wanderAngle |-> ant.wanderAngle]
          [] OTHER ->
               IF dist > 250
               THEN [force |-> seek(ant, home, 10), wanderAngle |-> ant.wanderAngle]
               ELSE [force |-> w.force, wanderAngle |-> w.newAngle]

(* The clamp of a coordinate to [1.2, WORLD_SIZE - 1.2]. *)
ClampToMargin(c) == Max(WORLD_EDGE, Min(WORLD_SIZE * Unit - WORLD_EDGE, c))

(* Lines 783-892: the map callback of updatePhysics for one ant. *)
MoveAntKin(ant, nestPos, in, sample) ==
    IF ~ant.isAlive THEN ant
    ELSE
    Then(StateForce(ant, nestPos, in), LAMBDA sf :
    Then(vecLimit(vecAdd(sf.force, avoidBorders(ant)), ANT_MAX_FORCE), LAMBDA totalForce :
    Then(vecLimit(vecAdd(ant.velocity, totalForce), ANT_MAX_SPEED), LAMBDA velocity :
    Then(KinPos(nestPos, ClampToMargin(ant.pos.ux + velocity.x),
                         ClampToMargin(ant.pos.uy + velocity.y)), LAMBDA p :
        [ant EXCEPT !.wanderAngle = sf.wanderAngle,
                    !.velocity = velocity,
                    !.pos = p,
                    !.trail = IF sample THEN SampleTrail(@, p) ELSE @]))))

(* updatePhysics(state): ins[k] is what the frame draws for the k-th ant. *)
updatePhysicsKinState(state, paused, ins, sample) ==
    IF state.gameOver \/ paused THEN state
    ELSE [state EXCEPT !.ants = [k \in DOMAIN state.ants |->
              MoveAntKin(state.ants[k], state.nestPos, ins[k], sample)]]

(* A tick that stops the ants. *)
gameTickKinStateHalting(prev, h) ==
    LET next == gameTickState(prev)
    IN  [next EXCEPT !.ants = [k \in DOMAIN next.ants |->
            IF k > Len(prev.ants)
            THEN createAntKin(prev.nestPos, next.ants[k].id, h)
            ELSE [next.ants[k] EXCEPT !.velocity = [x |-> 0, y |-> 0]]]]

(* gameTick(prev): the ant it spawns is created with the angle Angles[h]. *)
gameTickKinState(prev, h) ==
    LET next == gameTickState(prev)
    IN  [next EXCEPT !.ants = [k \in DOMAIN next.ants |->
            IF k > Len(prev.ants)
            THEN createAntKin(prev.nestPos, next.ants[k].id, h)
            ELSE next.ants[k]]]

(* The state initGame sets, its ant created with the angle Angles[h]. *)
initGameKinState(h) ==
    [initGameState EXCEPT !.ants = [k \in DOMAIN initGameState.ants |->
         createAntKin(initGameState.nestPos, initGameState.ants[k].id, h)]]

RECURSIVE Frames(_, _, _)
(* n motion passes without a trail sample in which every ant draws in. *)
Frames(state, in, n) ==
    IF n = 0 THEN state
    ELSE IF n = 1
    THEN updatePhysicsKinState(state, FALSE, [k \in DOMAIN state.ants |-> in], FALSE)
    ELSE Then(Frames(state, in, n \div 2),
              LAMBDA s : Frames(s, in, n - n \div 2))

(* The angles the model creates ants with. *)
CreateHeadings == {2}

(* The frames NearEdge has run. *)
EdgeFrames == 434

(* A game whose ant, created heading west and sent to harvest, has         *)
(* followed a food trail westwards for EdgeFrames frames, to the margin    *)
(* the world keeps at its border.  No tick has fired: the tick interval    *)
(* starts anew with every change of the speed setting.                      *)
NearEdge ==
    Frames(setDirectiveState(initGameKinState(5), "harvest"),
           [h |-> 5, drift |-> 0, g |-> 5], EdgeFrames)

(* The frames Cruising has run. *)
CruiseFrames == 14

(* A game whose ant, created heading south-east, has explored straight on  *)
(* until it is as fast as the limit of its speed lets it be.                *)
Cruising ==
    Frames(initGameKinState(2), [h |-> 2, drift |-> 0, g |-> 0], CruiseFrames)

InitKin ==
    /\ gs \in {initGameKinState(h) : h \in CreateHeadings}
               \cup {Cruising, NearEdge}
    /\ isPaused = FALSE
    /\ budget = [frames |-> MaxKinFrames, ticks |-> MaxKinTicks]
    /\ ev = NoEvent
    /\ mapTemplate = Original

(* One animation frame (lines 1043-1047): updatePhysics on the state, in   *)
(* which the ants draw alike.                                               *)
updatePhysicsKin ==
    /\ budget.frames > 0
    /\ \E in \in Steerings, sample \in BOOLEAN :
           gs' = updatePhysicsKinState(gs, isPaused,
                                       [k \in DOMAIN gs.ants |-> in], sample)
    /\ budget' = [budget EXCEPT !.frames = @ - 1]
    /\ UNCHANGED <<isPaused, ev, mapTemplate>>

(* One firing of the tick interval. *)
gameTickKin ==
    /\ ~isPaused
    /\ budget.ticks > 0
    /\ \E h \in CreateHeadings : gs' = gameTickKinState(gs, h)
    /\ ev' = IF gs.gameOver THEN ev ELSE TickEvent(gs, gs')
    /\ budget' = [budget EXCEPT !.ticks = @ - 1]
    /\ UNCHANGED <<isPaused, mapTemplate>>

NextKin == updatePhysicsKin \/ gameTickKin \/ setDirective \/ togglePause

(* Games with the velocities of their ants. *)
SpecKin == InitKin /\ [][NextKin]_vars

----------------------------------------------------------------------------
(* Properties *)

(* A step that is one logic tick of a game in progress. *)
TickStep == gs'.tick = gs.tick + 1

(* A step within one game: initGame on a game that has ticked sets the     *)
(* tick counter back to 0.                                                  *)
SameGame == gs'.tick >= gs.tick

(* The ants that deliver in the tick that starts in the current state:     *)
(* alive, carrying food, within distance 1 of the nest centre.             *)
Deliverers ==
    {i \in DOMAIN gs.ants : /\ gs.ants[i].isAlive
                            /\ gs.ants[i].carriedInfo = "food"
                            /\ gs.ants[i].pos.near}

(* The cost of the ant a tick step has spawned, if it has spawned one. *)
SpawnCost == IF Len(gs'.ants) > Len(gs.ants) THEN SPAWN_FOOD_COST ELSE 0

(* C1: in every reachable state every tile's homePheromone and              *)
(* foodPheromone lie within [0, 1].                                         *)
C1_PheromonesInRange ==
    \A t \in DOMAIN gs.map :
        /\ gs.map[t].homePheromone \in 0 .. One
        /\ gs.map[t].foodPheromone \in 0 .. One

(* A tick after a pickup: the food tile holds the pheromone the pickup     *)
(* set, decayed once, and the carrying ant has deposited both pheromones   *)
(* on its own tile.                                                         *)
C1_Witness ==
    /\ gs.tick = Carrying.tick + 1
    /\ TileAt(gs.map, FoodTile.x, FoodTile.y).foodPheromone = One - PHEROMONE_DECAY
    /\ \E i \in DOMAIN gs.ants :
          LET tile == TileAt(gs.map, gs.ants[i].pos.x, gs.ants[i].pos.y)
          IN  /\ gs.ants[i].isAlive
              /\ gs.ants[i].carriedInfo = "food"
              /\ tile.foodPheromone >= PHEROMONE_DEPOSIT_RATE
              /\ tile.homePheromone > 0

(* C2: Dead is absorbing.  No step of a game (logic tick, motion pass,      *)
(* setDirective) makes a dead ant alive again or removes it.                *)
C2_DeadIsAbsorbing ==
    [][SameGame =>
         \A i \in DOMAIN gs.ants :
             ~gs.ants[i].isAlive =>
                 /\ i \in DOMAIN gs'.ants
                 /\ gs'.ants[i].id = gs.ants[i].id
                 /\ ~gs'.ants[i].isAlive]_vars

(* An ant died in an earlier tick, the game went on through a later tick   *)
(* and a change of directive, and the ant is still dead.                    *)
C2_Witness ==
    /\ \E i \in DOMAIN gs.ants : ~gs.ants[i].isAlive
    /\ ~gs.gameOver
    /\ gs.tick = Doomed.tick + 2
    /\ ev.died = 0
    /\ gs.directive = "defend"

(* C3: in every logic tick, every live ant that carries food and is within  *)
(* the arrival radius of the nest has an empty carried slot at the end of   *)
(* the tick, and the food counter has grown by exactly one for each such    *)
(* ant (less the cost of the ant the tick spawns, if it spawns one).        *)
C3_DeliveryCounts ==
    [][TickStep =>
         /\ \A i \in Deliverers : gs'.ants[i].carriedInfo = "none"
         /\ gs'.food = gs.food + Cardinality(Deliverers) - SpawnCost]_vars

(* A tick in which an ant delivered. *)
C3_Witness ==
    /\ gs.tick = Carrying.tick + 1
    /\ ev.delivered = 1
    /\ gs.food = Carrying.food + 1
    /\ gs.ants[1].carriedInfo = "none"

C5_WonIffGoal ==
    /\ gs.won <=> gs.food >= WIN_FOOD
    /\ gs.won => gs.gameOver
    /\ WinLose(Max(gs.food, WIN_FOOD), <<>>, STARVATION_TICKS + 1) = <<TRUE, TRUE>>

(* A game won by the delivery that brought the counter to WIN_FOOD. *)
C5_Witness ==
    /\ gs.won
    /\ gs.gameOver
    /\ gs.food = WIN_FOOD
    /\ ev.delivered = 1

(* C6: the game is won in the very logic tick in which deliveries bring    *)
(* the running food count to at least WIN_FOOD, also when a spawn is due   *)
(* in that tick: the tick ends with gameOver and won.                       *)
C6_WonWhenGoalReached ==
    [][(TickStep /\ gs.food + Cardinality(Deliverers) >= WIN_FOOD) =>
          (gs'.gameOver /\ gs'.won)]_vars

(* C7: once gameOver holds, no step of the same game (logic tick, motion   *)
(* pass, setDirective) changes the game state, and the tick counter does   *)
(* not advance.                                                             *)
C7_FrozenAfterGameOver ==
    [][(gs.gameOver /\ SameGame) => gs' = gs]_vars

(* C8: Return is not preemptible.  A live ant in Return with food stays in  *)
(* Return with its food through every step of the game, whatever directive *)
(* is set, except the logic tick in which it delivers (within the arrival  *)
(* radius; it then has the directive of that tick as its state) or dies.   *)
C8_ReturnNotPreempted ==
    [][SameGame =>
         \A i \in DOMAIN gs.ants :
             LET a == gs.ants[i]
                 b == gs'.ants[i]
             IN  (a.isAlive /\ a.state = "return" /\ a.carriedInfo = "food") =>
                     \/ /\ b.state = "return"
                        /\ b.carriedInfo = "food"
                        /\ b.isAlive \/ TickStep
                     \/ /\ TickStep
                        /\ a.pos.near
                        /\ b.isAlive
                        /\ b.carriedInfo = "none"
                        /\ b.state = gs.directive
                        /\ gs'.directive = gs.directive]_vars

(* The directive was set to defend while an ant was on its way home with   *)
(* food; the ant has delivered and then taken up defend.                    *)
C8_Witness ==
    /\ gs.tick = Carrying.tick + 1
    /\ ev.delivered = 1
    /\ gs.directive = "defend"
    /\ gs.ants[1].isAlive
    /\ gs.ants[1].carriedInfo = "none"
    /\ gs.ants[1].state = "defend"

(* C9: right after setDirective(d) the directive is d, every ant whose     *)
(* state was not return has state d, every ant whose state was return      *)
(* still has it, and nothing else has changed.                              *)
C9_SetDirectiveEffect ==
    [][setDirective =>
         \E d \in Directives :
             /\ gs'.directive = d
             /\ DOMAIN gs'.ants = DOMAIN gs.ants
             /\ \A i \in DOMAIN gs.ants :
                    /\ gs.ants[i].state # "return" => gs'.ants[i].state = d
                    /\ gs.ants[i].state = "return" => gs'.ants[i].state = "return"
                    /\ gs'.ants[i] = [gs.ants[i] EXCEPT !.state = gs'.ants[i].state]
             /\ gs' = [gs EXCEPT !.directive = gs'.directive, !.ants = gs'.ants]
             /\ UNCHANGED isPaused]_vars

(* harvest was set while ant 1 was in return and ant 2 was not. *)
C9_Witness ==
    /\ gs.tick = Carrying.tick
    /\ gs.directive = "harvest"
    /\ gs.ants[1].state = "return"
    /\ gs.ants[1].carriedInfo = "food"
    /\ gs.ants[2].state = "harvest"

(* C10: a logic tick after whose deliveries and deaths the food count is   *)
(* at least SPAWN_FOOD_COST and fewer than MAX_ANTS ants are alive deducts *)
(* SPAWN_FOOD_COST and adds one live ant at the nest, in state defend when *)
(* the directive is defend and explore otherwise; any other tick adds no   *)
(* ant and deducts nothing.                                                 *)
C10_SpawnFollowsDirective ==
    [][TickStep =>
         LET n == Len(gs.ants)
             running == gs.food + Cardinality(Deliverers)
             alive == Cardinality({i \in 1 .. n : gs'.ants[i].isAlive})
         IN  IF running >= SPAWN_FOOD_COST /\ alive < MAX_ANTS
             THEN /\ Len(gs'.ants) = n + 1
                  /\ gs'.food = running - SPAWN_FOOD_COST
                  /\ gs'.ants[n + 1].isAlive
                  /\ gs'.ants[n + 1].pos.x = gs.nestPos.x
                  /\ gs'.ants[n + 1].pos.y = gs.nestPos.y
                  /\ gs'.ants[n + 1].state =
                         IF gs.directive = "defend" THEN "defend" ELSE "explore"
             ELSE /\ Len(gs'.ants) = n
                  /\ gs'.food = running]_vars

OnSpider(a) == TileAt(gs.map, a.pos.x, a.pos.y).type = "spider"

(* C13: an ant dies the instant it enters a spider tile: no step of a game *)
(* takes a live ant from a spider tile to another tile and leaves it alive. *)
C13_NoLiveExitFromSpider ==
    [][SameGame =>
         \A i \in DOMAIN gs.ants :
             LET a == gs.ants[i]
                 b == gs'.ants[i]
             IN  (a.isAlive /\ OnSpider(a) /\ <<b.pos.x, b.pos.y>> # <<a.pos.x, a.pos.y>>)
                     => ~b.isAlive]_vars

(* C14: a motion pass leaves the map, the colony's food, directive, tick,  *)
(* ticksSinceLastFood, gameOver, won and antIdCounter unchanged, and       *)
(* changes no ant's state, carried slot or isAlive; it adds and removes no *)
(* ant.                                                                     *)
C14_MotionReadOnly ==
    [][updatePhysics =>
         /\ gs' = [gs EXCEPT !.ants = gs'.ants]
         /\ DOMAIN gs'.ants = DOMAIN gs.ants
         /\ \A i \in DOMAIN gs.ants :
                gs'.ants[i] = [gs.ants[i] EXCEPT !.pos = gs'.ants[i].pos,
                                                 !.trail = gs'.ants[i].trail]]_vars

(* Motion passes have taken ant 2 onto the spider tile, over tiles no ant  *)
(* had revealed, and sampled its trail; the map is as it was.               *)
C14_Witness ==
    /\ gs.tick = Doomed.tick
    /\ gs.map = Doomed.map
    /\ gs.ants[2].pos.x = SpiderTile.x
    /\ gs.ants[2].pos.y = SpiderTile.y
    /\ Len(gs.ants[2].trail) > Len(Doomed.ants[2].trail)
    /\ ~TileAt(gs.map, SpiderTile.x, SpiderTile.y).revealed

(* C15: while the game is paused no motion pass changes an ant's position  *)
(* or trail and no logic tick runs: every step from a paused state, other   *)
(* than a restart, leaves the tick counter, the map, the food counter,     *)
(* ticksSinceLastFood and every ant's position and trail unchanged; so the  *)
(* step that resumes makes up no tick.                                      *)
C15_PauseFreezes ==
    [][(isPaused /\ ~initGame) =>
         /\ gs'.tick = gs.tick
         /\ gs'.map = gs.map
         /\ gs'.food = gs.food
         /\ gs'.ticksSinceLastFood = gs.ticksSinceLastFood
         /\ DOMAIN gs'.ants = DOMAIN gs.ants
         /\ \A i \in DOMAIN gs.ants :
                /\ gs'.ants[i].pos = gs.ants[i].pos
                /\ gs'.ants[i].trail = gs.ants[i].trail]_vars

(* A paused game in which motion passes have been due: no ant has moved.   *)
C15_Witness ==
    /\ isPaused
    /\ budget.frames = 0
    /\ budget.ticks = MaxTicks
    /\ gs.tick = 0
    /\ gs.ants = initGameState.ants

(* C16: initGame, from any state, sets in one step the initial state: the  *)
(* map parsed from the template, INITIAL_ANTS live ants at the nest,       *)
(* exploring, with no cargo and trail = [nest], directive explore, food =  *)
(* INITIAL_FOOD, tick = 0, ticksSinceLastFood = 0, gameOver = won = false, *)
(* antIdCounter = INITIAL_ANTS, and not paused.                             *)
C16_RestartIsInitial ==
    [][initGame =>
         /\ gs'.map = parseMapTemplate.tiles
         /\ gs'.nestPos = parseMapTemplate.nestPos
         /\ Len(gs'.ants) = INITIAL_ANTS
         /\ \A i \in DOMAIN gs'.ants :
                /\ gs'.ants[i].id = i - 1
                /\ gs'.ants[i].isAlive
                /\ gs'.ants[i].state = "explore"
                /\ gs'.ants[i].carriedInfo = "none"
                /\ gs'.ants[i].pos = [x |-> gs'.nestPos.x, y |-> gs'.nestPos.y,
                                      near |-> TRUE]
                /\ gs'.ants[i].trail = <<[x |-> gs'.nestPos.x, y |-> gs'.nestPos.y]>>
         /\ gs'.directive = "explore"
         /\ gs'.food = INITIAL_FOOD
         /\ gs'.maxFood = WIN_FOOD
         /\ gs'.tick = 0
         /\ gs'.ticksSinceLastFood = 0
         /\ ~gs'.gameOver
         /\ ~gs'.won
         /\ gs'.antIdCounter = INITIAL_ANTS
         /\ DOMAIN gs' = {"map", "ants", "directive", "food", "maxFood", "tick",
                          "gameOver", "won", "ticksSinceLastFood", "nestPos",
                          "antIdCounter"}
         /\ ~isPaused']_vars

(* A restart after both logic ticks of the previous game have run. *)
C16_Witness ==
    /\ budget.ticks = 0
    /\ gs.tick = 0
    /\ Len(gs.ants) = INITIAL_ANTS
    /\ gs.food = INITIAL_FOOD
    /\ ~isPaused

(* The number of home markers a layout shows. *)
HomeCount(layout) ==
    Cardinality({p \in (DOMAIN layout) \X (1 .. 2 * MAP_SIZE) :
                    p[2] <= Len(layout[p[1]]) /\ layout[p[1]][p[2]] = "N"})

(* The number of cells of a row: a border emoji (two code units) is one    *)
(* cell, any other code unit is one cell.                                   *)
CellCount(row) ==
    Len(row) - Cardinality({k \in DOMAIN row : row[k] = BORDER[1]})

(* Every row of the layout has MAP_SIZE cells. *)
Rectangular(layout) ==
    \A r \in DOMAIN layout : CellCount(layout[r]) = MAP_SIZE

(* C17: map loading fails fast: no game state (no world, no ants) is built *)
(* from a layout with no home marker, with more than one home marker or    *)
(* with rows of unequal length.                                             *)
C17_BadLayoutRejected ==
    gs # NoGame =>
        /\ HomeCount(LayoutOf(mapTemplate)) = 1
        /\ Rectangular(LayoutOf(mapTemplate))

(* The cells of a row from cell k on, k counted from 1 in code units: a    *)
(* border emoji is one cell.                                                *)
RECURSIVE RowCells(_, _)
RowCells(row, k) ==
    IF k > Len(row) THEN <<>>
    ELSE IF k < Len(row) /\ <<row[k], row[k + 1]>> = BORDER
         THEN <<"border">> \o RowCells(row, k + 2)
         ELSE <<row[k]>> \o RowCells(row, k + 1)

(* The cells MAP_TEMPLATE shows as border: the outer ring of the map. *)
BorderCells ==
    UNION {LET cells == RowCells(MAP_TEMPLATE[y + 1], 1)
           IN  {<<k - 1, y>> : k \in {j \in DOMAIN cells : cells[j] = "border"}} :
           y \in Coord}

DiedInStep == {i \in DOMAIN gs.ants : gs.ants[i].isAlive /\ ~gs'.ants[i].isAlive}

(* C20 as stated: a step of a game in which ants die lowers the number of   *)
(* live ants by one for each of them.                                       *)
C20_DeathLowersLiveCount ==
    [][SameGame /\ DiedInStep # {} =>
           AliveCount(gs'.ants) = AliveCount(gs.ants) - Cardinality(DiedInStep)]_vars

(* C20, amended: within a game an ant's isAlive changes only from TRUE to   *)
(* FALSE, only in a tick and only for an ant standing on a spider tile, and *)
(* such an ant dies in that tick; the tick changes the number of live ants  *)
(* by minus the deaths plus one if it spawns an ant, which costs            *)
(* SPAWN_FOOD_COST food; no other step changes the number.                  *)
C20_LiveCountDropsUnlessSpawn ==
    [][SameGame =>
         /\ \A i \in DOMAIN gs.ants :
                /\ gs'.ants[i].isAlive # gs.ants[i].isAlive =>
                       /\ TickStep
                       /\ gs.ants[i].isAlive
                       /\ OnSpider(gs.ants[i])
                /\ TickStep /\ gs.ants[i].isAlive /\ OnSpider(gs.ants[i]) =>
                       ~gs'.ants[i].isAlive
         /\ Len(gs'.ants) \in {Len(gs.ants), Len(gs.ants) + 1}
         /\ Len(gs'.ants) > Len(gs.ants) =>
                /\ TickStep
                /\ gs'.ants[Len(gs'.ants)].isAlive
                /\ gs'.food + SPAWN_FOOD_COST >= gs.food
                /\ gs'.food + SPAWN_FOOD_COST <= gs.food + Len(gs.ants)
         /\ AliveCount(gs'.ants) =
                AliveCount(gs.ants) - Cardinality(DiedInStep)
                + (IF Len(gs'.ants) > Len(gs.ants) THEN 1 ELSE 0)]_vars

(* A tick in which an ant died on a spider tile and an ant was spawned:     *)
(* the colony is as large as before the death.                              *)
C20_Witness ==
    /\ ev.died = 1
    /\ ev.spawned
    /\ \E i \in DOMAIN gs.ants : ~gs.ants[i].isAlive /\ OnSpider(gs.ants[i])
    /\ AliveCount(gs.ants) = MAX_ANTS

(* C22: a dead ant receives no further updates: no step of a game (logic   *)
(* tick, motion pass, setDirective) changes any field of an ant that is    *)
(* dead.                                                                    *)
C22_DeadAntUntouched ==
    [][SameGame =>
         \A i \in DOMAIN gs.ants :
             ~gs.ants[i].isAlive => gs'.ants[i] = gs.ants[i]]_vars

(* C23: the food count is never negative, and a tick deducts the spawn     *)
(* cost only when the count it has reached (the count before the tick      *)
(* plus the tick's deliveries) is at least SPAWN_FOOD_COST.                 *)
C23_FoodNeverNegative ==
    /\ [](gs.food >= 0)
    /\ [][TickStep =>
            LET reached == gs.food + ev'.delivered
            IN  /\ gs'.food \in {reached, reached - SPAWN_FOOD_COST}
                /\ gs'.food < reached => /\ reached >= SPAWN_FOOD_COST
                                         /\ Len(gs'.ants) > Len(gs.ants)
                /\ reached < SPAWN_FOOD_COST => gs'.food = reached]_vars

(* The first tick has spent all the food on the second ant; the second     *)
(* tick, with room in the colony but nothing to pay with, spawns nothing   *)
(* and leaves the count at 0.                                               *)
C23_Witness ==
    /\ gs.tick = 2
    /\ gs.food = 0
    /\ ~ev.spawned
    /\ Len(gs.ants) = INITIAL_ANTS + 1
    /\ AliveCount(gs.ants) < MAX_ANTS

(* C25: an ant that delivers in a tick (alive, carrying food, within       *)
(* distance 1 of the nest centre, not on a spider) ends the tick in the    *)
(* state the directive of that tick names, with the trail [nest]; the      *)
(* tick sets ticksSinceLastFood to 0 and every tile of the ant's trail      *)
(* before the tick is revealed after it.                                    *)
C25_DeliveryEffects ==
    [][TickStep =>
         \A i \in Deliverers :
             ~OnSpider(gs.ants[i]) =>
                 /\ gs.directive \in Directives
                 /\ gs'.ants[i].state = gs.directive
                 /\ gs'.ants[i].trail = <<[x |-> gs.nestPos.x, y |-> gs.nestPos.y]>>
                 /\ gs'.ticksSinceLastFood = 0
                 /\ \A k \in DOMAIN gs.ants[i].trail :
                        LET p == gs.ants[i].trail[k]
                        IN  InBounds(p.x, p.y) => TileAt(gs'.map, p.x, p.y).revealed]_vars

(* A delivery under the harvest directive: the ant harvests, its trail is  *)
(* [nest] and the food tile its trail led over, hidden before, is revealed. *)
C25_Witness ==
    /\ ev.delivered = 1
    /\ gs.directive = "harvest"
    /\ gs.ticksSinceLastFood = 0
    /\ gs.ants[1].state = "harvest"
    /\ gs.ants[1].carriedInfo = "none"
    /\ gs.ants[1].trail = NestTrail(gs.nestPos)
    /\ ~TileAt(Carrying.map, FoodTile.x, FoodTile.y).revealed
    /\ TileAt(gs.map, FoodTile.x, FoodTile.y).revealed

(* The tile ant a stands on, in the current map. *)
TileUnder(a) == TileAt(gs.map, a.pos.x, a.pos.y)

(* C26: in a tick a live ant that explores or harvests, carries nothing    *)
(* and stands on a food tile ends the tick returning with food, and the    *)
(* tile's foodPheromone is exactly 1 after the tick; no other ant comes to *)
(* carry food in a tick: not one that returns or defends, not one that     *)
(* carries already.                                                         *)
C26_PickupRule ==
    [][TickStep =>
         \A i \in DOMAIN gs.ants :
             LET a == gs.ants[i]
                 picks == /\ a.isAlive
                          /\ a.state \in {"explore", "harvest"}
                          /\ a.carriedInfo = "none"
                          /\ TileUnder(a).type = "food"
             IN  /\ picks =>
                       /\ gs'.ants[i].state = "return"
                       /\ gs'.ants[i].carriedInfo = "food"
                       /\ gs'.ants[i].isAlive
                       /\ TileAt(gs'.map, a.pos.x, a.pos.y).foodPheromone = One
                 /\ ~picks =>
                       /\ gs'.ants[i].carriedInfo = "food" => a.carriedInfo = "food"
                       /\ a.state \in {"return", "defend"} =>
                              gs'.ants[i].carriedInfo = a.carriedInfo]_vars

(* A tick in which the harvesting first ant has picked up the food at      *)
(* (9, 12).                                                                 *)
C26_Witness ==
    /\ ev.picked = 1
    /\ gs.directive = "harvest"
    /\ gs.ants[1].pos.x = FoodTile.x
    /\ gs.ants[1].pos.y = FoodTile.y
    /\ gs.ants[1].state = "return"
    /\ gs.ants[1].carriedInfo = "food"
    /\ TileAt(gs.map, FoodTile.x, FoodTile.y).foodPheromone = One

(* The ant of the next state with the id of ant a, if it is still there.   *)
SameAntNext(a) == {b \in SeqRange(gs'.ants) : b.id = a.id}

(* C27: an exploring ant leaves the explore state on its own only by       *)
(* picking up food: a logic tick of the discrete variant leaves an         *)
(* exploring ant exploring or returning with food, never returning with    *)
(* nothing carried.                                                         *)
C27_GridExploreExitsByPickup ==
    [][gameTickGrid =>
         \A a \in SeqRange(gs.ants) : \A b \in SameAntNext(a) :
             a.state = "explore" /\ b.state # "explore" =>
                 b.state = "return" /\ b.carriedInfo = "food"]_vars

(* C28: the defend state has no exit of its own: a defending ant carries   *)
(* nothing, so it never delivers; a tick or a motion pass leaves its       *)
(* state and its empty hands as they are, even on a food tile; only a      *)
(* setDirective with another directive changes its state.                   *)
C28_DefendHasNoExit ==
    /\ [](\A i \in DOMAIN gs.ants :
              gs.ants[i].state = "defend" => gs.ants[i].carriedInfo = "none")
    /\ [][SameGame =>
            \A i \in DOMAIN gs.ants :
                gs.ants[i].state = "defend" =>
                    /\ gs'.ants[i].carriedInfo = "none"
                    /\ gs'.ants[i].state # "defend" =>
                           /\ gs'.directive # "defend"
                           /\ gs'.ants[i].state = gs'.directive
                           /\ gs'.tick = gs.tick
                           /\ gs'.map = gs.map
                           /\ gs'.food = gs.food]_vars

(* A tick has passed over a live defending ant standing on the food at     *)
(* (9, 12): it still defends and carries nothing.                           *)
C28_Witness ==
    /\ gs.tick > Foraging.tick
    /\ ev.picked = 0
    /\ gs.ants[1].isAlive
    /\ gs.ants[1].state = "defend"
    /\ gs.ants[1].carriedInfo = "none"
    /\ gs.ants[1].pos.x = FoodTile.x
    /\ gs.ants[1].pos.y = FoodTile.y
    /\ budget.frames = MaxFrames - 1

(* C29: tile types never change after the map is parsed: in every state    *)
(* every tile has the type parseMapTemplate gave it, and no step (logic    *)
(* tick, motion pass, setDirective) changes one; in particular a food tile *)
(* is still a food tile after a pickup.                                     *)
C29_TileTypesFixed ==
    /\ [](\A t \in DOMAIN gs.map \cup DOMAIN parseMapTemplate.tiles :
              TileAt(gs.map, t[1], t[2]).type =
                  TileAt(parseMapTemplate.tiles, t[1], t[2]).type)
    /\ [][\A t \in DOMAIN gs.map \cup DOMAIN gs'.map :
              TileAt(gs'.map, t[1], t[2]).type = TileAt(gs.map, t[1], t[2]).type]_vars

(* After a tick in which an ant picked up the food at (9, 12) the tile is  *)
(* a food tile still, and a new ant standing on it would pick up again.    *)
C29_Witness ==
    /\ ev.picked = 1
    /\ gs.ants[1].carriedInfo = "food"
    /\ gs.ants[1].pos.x = FoodTile.x
    /\ gs.ants[1].pos.y = FoodTile.y
    /\ TileAt(gs.map, FoodTile.x, FoodTile.y).type = "food"
    /\ CanPickUp(TileAt(gs.map, FoodTile.x, FoodTile.y), createAnt(gs.nestPos, 0))

(* The tiles on which a live ant stands in the current state. *)
OccupiedTiles ==
    {<<gs.ants[i].pos.x, gs.ants[i].pos.y>> :
         i \in {k \in DOMAIN gs.ants : gs.ants[k].isAlive}}

(* C30: in every tick, on every tile outside the 5x5 square around the     *)
(* nest on which no live ant stands at the tick, each pheromone's new      *)
(* value is the old one less PHEROMONE_DECAY, or 0 if that is negative;    *)
(* it is never larger than the old value.                                   *)
C30_DecayIsExact ==
    [][TickStep =>
         \A t \in (DOMAIN gs.map \cup DOMAIN gs'.map) \ OccupiedTiles :
             ~InNestArea(gs.nestPos, t[1], t[2]) =>
                 LET old == TileAt(gs.map, t[1], t[2])
                     new == TileAt(gs'.map, t[1], t[2])
                     less(v) == IF v >= PHEROMONE_DECAY THEN v - PHEROMONE_DECAY ELSE 0
                 IN  /\ new.homePheromone = less(old.homePheromone)
                     /\ new.foodPheromone = less(old.foodPheromone)
                     /\ new.homePheromone <= old.homePheromone
                     /\ new.foodPheromone <= old.foodPheromone]_vars

(* A tick after the carrying ant has left the food tile at (9, 12): the    *)
(* tile, with no ant on it, has lost PHEROMONE_DECAY of each of the        *)
(* pheromones the pickup left there.                                        *)
C30_Witness ==
    /\ gs.tick = Carrying.tick + 1
    /\ <<FoodTile.x, FoodTile.y>> \notin OccupiedTiles
    /\ TileAt(Carrying.map, FoodTile.x, FoodTile.y).homePheromone > PHEROMONE_DECAY
    /\ TileAt(gs.map, FoodTile.x, FoodTile.y).homePheromone =
           TileAt(Carrying.map, FoodTile.x, FoodTile.y).homePheromone - PHEROMONE_DECAY
    /\ TileAt(gs.map, FoodTile.x, FoodTile.y).foodPheromone =
           TileAt(Carrying.map, FoodTile.x, FoodTile.y).foodPheromone - PHEROMONE_DECAY

(* C24: the spider comes first in a tick: a live ant that stands on a      *)
(* spider tile at a tick dies in it and neither picks up nor delivers,     *)
(* even when it carries food within distance 1 of the nest centre: its     *)
(* carriedInfo, state and trail stay as they were, and the food count      *)
(* grows only by the deliveries of the ants that are not on a spider.      *)
C24_SpiderComesFirst ==
    [][TickStep =>
         /\ \A i \in DOMAIN gs.ants :
                gs.ants[i].isAlive /\ OnSpider(gs.ants[i]) =>
                    gs'.ants[i] = [gs.ants[i] EXCEPT !.isAlive = FALSE]
         /\ gs'.food + SpawnCost =
                gs.food + Cardinality({i \in Deliverers : ~OnSpider(gs.ants[i])})
         /\ {i \in Deliverers : ~OnSpider(gs.ants[i])} = {} =>
                gs'.ticksSinceLastFood = gs.ticksSinceLastFood + 1]_vars

(* The first ant stood on the spider tile next to the nest, carrying food, *)
(* within distance 1 of the nest centre: the tick killed it, it still      *)
(* carries the food and nothing was delivered.                              *)
C24_Witness ==
    /\ ev.died >= 1
    /\ ev.delivered = 0
    /\ ~gs.ants[1].isAlive
    /\ OnSpider(gs.ants[1])
    /\ gs.ants[1].pos.near
    /\ gs.ants[1].carriedInfo = "food"
    /\ gs.ants[1].state = "return"
    /\ gs.food = HazardAtHome.food
    /\ gs.ticksSinceLastFood > HazardAtHome.ticksSinceLastFood

(* A delivery has been made in the current game: ticksSinceLastFood grows  *)
(* by one in every tick and only a delivery sets it back to 0.             *)
HasDelivered == gs.ticksSinceLastFood < gs.tick

(* C21: a game that starts with one exploring ant at the nest and food     *)
(* three tiles away, and is left to the animation loop and the tick        *)
(* interval, comes to a state in which an ant has picked up food and       *)
(* delivered it.                                                            *)
C21_EventuallyDelivers == <>HasDelivered


(* C32: the colony is capped: there are never more than MAX_ANTS live      *)
(* ants, and a logic tick makes the roster at most one ant longer.          *)
C32_ColonyCapped ==
    /\ [](AliveCount(gs.ants) <= MAX_ANTS)
    /\ [][gameTick => Len(gs'.ants) <= Len(gs.ants) + 1]_vars

(* A tick has run on a full colony that could pay for an ant, and spawned  *)
(* none.                                                                    *)
C32_Witness ==
    /\ gs.tick > LateGame.tick
    /\ AliveCount(gs.ants) = MAX_ANTS
    /\ Len(gs.ants) = MAX_ANTS
    /\ gs.food >= SPAWN_FOOD_COST
    /\ ~ev.spawned

(* C33: cargo and state agree.  In both variants an ant that carries food  *)
(* is returning; in the continuous variant an ant returns only with food.  *)
C33_CargoMatchesState ==
    \A a \in SeqRange(gs.ants) :
        /\ a.carriedInfo = "food" => a.state = "return"
        /\ ~IsGridGame /\ a.state = "return" => a.carriedInfo = "food"

(* In the discrete variant the first ant has picked up the food at (9, 12) *)
(* and the directive has been changed since.                                *)
C33_Witness ==
    /\ IsGridGame
    /\ gs.tick = GridNearFood.tick + 1
    /\ gs.directive = "defend"
    /\ \E a \in SeqRange(gs.ants) :
           /\ a.id = 0
           /\ a.pos = [x |-> FoodTile.x, y |-> FoodTile.y]
           /\ a.carriedInfo = "food"
           /\ a.state = "return"

(* C34: ids are unique within a game: no two ants of the roster share an   *)
(* id and every id is below antIdCounter; in the continuous variant, which *)
(* never drops an ant, the roster is as long as antIdCounter.               *)
C34_IdsUnique ==
    /\ \A i, j \in DOMAIN gs.ants :
           i # j => gs.ants[i].id # gs.ants[j].id
    /\ \A i \in DOMAIN gs.ants :
           gs.ants[i].id >= 0 /\ gs.ants[i].id < gs.antIdCounter
    /\ ~IsGridGame => Len(gs.ants) = gs.antIdCounter

(* The first tick of a restarted game of the continuous variant has        *)
(* spawned the second ant, with the id the counter held.                    *)
C34_Witness ==
    /\ ~IsGridGame
    /\ gs.tick = 1
    /\ ev.spawned
    /\ Len(gs.ants) = INITIAL_ANTS + 1
    /\ gs.ants[INITIAL_ANTS + 1].id = INITIAL_ANTS
    /\ gs.antIdCounter = INITIAL_ANTS + 1

(* C35: the starvation counter.  A logic tick of a game in progress sets   *)
(* ticksSinceLastFood to 0 if an ant delivered in it and to one more than  *)
(* it was otherwise; so it never exceeds tick, never exceeds               *)
(* STARVATION_TICKS while the game is not over, and is 0 in a game won.    *)
C35_StarvationCounter ==
    /\ [][gameTick /\ ~gs.gameOver =>
             gs'.ticksSinceLastFood =
                 IF ev'.delivered > 0 THEN 0 ELSE gs.ticksSinceLastFood + 1]_vars
    /\ [](/\ gs.ticksSinceLastFood <= gs.tick
          /\ ~gs.gameOver => gs.ticksSinceLastFood <= STARVATION_TICKS
          /\ gs.won => gs.ticksSinceLastFood = 0)

(* The delivery that won the game: the counter is back at 0. *)
C35_Witness ==
    /\ gs.won
    /\ gs.food >= WIN_FOOD
    /\ ev.delivered = 1
    /\ gs.ticksSinceLastFood = 0
    /\ LateGame.ticksSinceLastFood > 0

(* C36: the spawn comes before the lose test: a game lost with fewer than  *)
(* MIN_ANTS_TO_SURVIVE live ants is lost with less than SPAWN_FOOD_COST    *)
(* food.                                                                    *)
C36_ExtinctOnlyWhenPoor ==
    gs.gameOver /\ ~gs.won /\ AliveCount(gs.ants) < MIN_ANTS_TO_SURVIVE
        => gs.food < SPAWN_FOOD_COST

(* The first tick killed the only ant and spawned another with the food    *)
(* there was; the second killed that one too, and the game is lost.         *)
C36_Witness ==
    /\ gs.gameOver
    /\ ~gs.won
    /\ gs.tick = 2
    /\ Len(gs.ants) = INITIAL_ANTS + 1
    /\ AliveCount(gs.ants) = 0
    /\ gs.food = INITIAL_FOOD - SPAWN_FOOD_COST

(* C37: revealing is monotone within a game: a logic tick, a motion pass   *)
(* and setDirective leave every revealed tile revealed; and in every state *)
(* the nest tile and all the border cells (the cells MAP_TEMPLATE shows as *)
(* border) are revealed.                                                    *)
C37_RevealedStays ==
    /\ [][gameTick \/ updatePhysics \/ setDirective =>
             \A t \in DOMAIN gs.map :
                 gs.map[t].revealed => TileAt(gs'.map, t[1], t[2]).revealed]_vars
    /\ [](/\ TileAt(gs.map, gs.nestPos.x, gs.nestPos.y).revealed
          /\ \A t \in BorderCells : TileAt(gs.map, t[1], t[2]).revealed)

(* C39: in the discrete variant the backtracking cursor stays inside the   *)
(* trail: for every ant of every state, 0 <= trailIndex and trailIndex <   *)
(* the length of trailHistory.                                              *)
C39_CursorInsideTrail ==
    \A a \in SeqRange(gs.ants) :
        a.trailIndex >= 0 /\ a.trailIndex < Len(a.trailHistory)

(* The tick after GridLongTrail: the first ant has stepped outward, its    *)
(* trail has lost the nest tile it began with and the cursor is on the     *)
(* last of its GRID_TRAIL_LIMIT tiles.                                      *)
C39_Witness ==
    /\ gs.tick = GridLongTrail.tick + 1
    /\ \E a \in SeqRange(gs.ants) :
           /\ a.id = 0
           /\ a.isAlive
           /\ a.state = "explore"
           /\ Len(a.trailHistory) = GRID_TRAIL_LIMIT
           /\ a.trailHistory[1] # gs.nestPos
           /\ a.trailIndex = GRID_TRAIL_LIMIT - 1

(* The squared length of a vector. *)
SquaredLength(v) == v.x * v.x + v.y * v.y

(* Every ant lies in [1.2, WORLD_SIZE - 1.2] on both axes. *)
InsideMargin ==
    \A a \in SeqRange(gs.ants) :
        /\ a.pos.ux >= WORLD_EDGE /\ a.pos.ux <= WORLD_SIZE * Unit - WORLD_EDGE
        /\ a.pos.uy >= WORLD_EDGE /\ a.pos.uy <= WORLD_SIZE * Unit - WORLD_EDGE

(* A motion pass changes the velocity of an ant by no more than a force    *)
(* clamped to ANT_MAX_FORCE can: by less than one unit of the arithmetic   *)
(* above ANT_MAX_FORCE.                                                     *)
ForceClampedOnce ==
    updatePhysicsKin =>
        \A k \in DOMAIN gs.ants :
            SquaredLength(vecSub(gs'.ants[k].velocity, gs.ants[k].velocity))
                < (ANT_MAX_FORCE + 1) * (ANT_MAX_FORCE + 1)

(* C31 as stated: integration is bounded.  In every motion pass the summed *)
(* force is clamped once to ANT_MAX_FORCE before it is added to the        *)
(* velocity, and in every state the speed of every ant is at most          *)
(* ANT_MAX_SPEED and its position lies in [1.2, WORLD_SIZE - 1.2] on both  *)
(* axes.                                                                    *)
C31_SpeedAtMostMax ==
    /\ [][ForceClampedOnce]_vars
    /\ [](InsideMargin /\ \A a \in SeqRange(gs.ants) :
              SquaredLength(a.velocity) <= ANT_MAX_SPEED * ANT_MAX_SPEED)

(* C31, amended: integration is bounded up to the rounding of vec2.limit.  *)
(* In every motion pass the summed force is clamped once to ANT_MAX_FORCE  *)
(* before it is added to the velocity; in every state the speed of every   *)
(* ant is less than one unit of the arithmetic above ANT_MAX_SPEED, and    *)
(* its position lies in [1.2, WORLD_SIZE - 1.2] on both axes.              *)
C31_IntegrationBounded ==
    /\ [][ForceClampedOnce]_vars
    /\ [](InsideMargin /\ \A a \in SeqRange(gs.ants) :
              SquaredLength(a.velocity)
                  < (ANT_MAX_SPEED + 1) * (ANT_MAX_SPEED + 1))

(* A motion pass of this run has left an ant on the line x = 1.2, where    *)
(* the clamp of its position holds it, still heading for the border.       *)
C31_Witness ==
    /\ budget.frames < MaxKinFrames
    /\ \E a \in SeqRange(gs.ants) :
           /\ a.isAlive
           /\ a.pos.ux = WORLD_EDGE
           /\ a.velocity.x < 0

(* C38: in the continuous variant the logic tick moves no ant.  gameTick   *)
(* leaves the position, the velocity and the wander angle of every ant as  *)
(* they were and, when the game is not over, adds exactly 1 to tick; a     *)
(* step that changes the position of an ant is a motion pass.              *)
C38_TickMovesNoAnt ==
    /\ [][gameTickKin =>
             /\ \A k \in DOMAIN gs.ants :
                    /\ gs'.ants[k].pos = gs.ants[k].pos
                    /\ gs'.ants[k].velocity = gs.ants[k].velocity
                    /\ gs'.ants[k].wanderAngle = gs.ants[k].wanderAngle
             /\ (~gs.gameOver => gs'.tick = gs.tick + 1)]_vars
    /\ [][(\E k \in DOMAIN gs.ants : gs'.ants[k].pos # gs.ants[k].pos)
             => updatePhysicsKin]_vars

(* A tick of this run has fired on an ant far from the nest and in motion, *)
(* and has spawned another.                                                 *)
C38_Witness ==
    /\ budget.ticks < MaxKinTicks
    /\ gs.tick = 1
    /\ ev.spawned
    /\ \E a \in SeqRange(gs.ants) :
           /\ a.id = 0
           /\ a.isAlive
           /\ ~a.pos.near
           /\ SquaredLength(a.velocity) > 0

====
